---- MODULE Spec2Model ----
(***************************************************************************)
(* Voice command pipeline of the Health Dashboard voice assistant:         *)
(*   voice/commands.py  command dispatcher (execute_command and handlers)  *)
(*   voice/intent.py    intent parser and the custom-metric pattern cache  *)
(*   voice/listener.py  wake-word wait and the recording loops             *)
(*   voice/tts.py       speech output                                      *)
(*   voice/main.py      session loop                                       *)
(* Every component has its own specification over its own variables; the   *)
(* variables of the other components keep their constructed values.        *)
(***************************************************************************)
EXTENDS Integers, Sequences, FiniteSets, TLC

VARIABLES
    \* ---- voice/commands.py: the last execute_command call ----
    cmdIntent,      \* the ParsedIntent handed to execute_command
    cmdFromParser,  \* TRUE when that intent was produced by the parser
    cmdResult,      \* the CommandResult returned
    requests,       \* outbound HTTP requests issued by the call, in order
    apiReplies      \* what the API did with each of those requests

dispatchVars == <<cmdIntent, cmdFromParser, cmdResult, requests, apiReplies>>

VARIABLES
    now,             \* time.time()
    last_wake_time,  \* VoiceListener.last_wake_time
    detections,      \* history: the times of the accepted wake detections
    wakeReturn       \* what the last wait_for_wake_word call returned

wakeVars == <<now, last_wake_time, detections, wakeReturn>>

VARIABLES
    _custom_metric_patterns,  \* the cached pattern list
    _patterns_loaded,         \* the loaded flag
    patOp,                    \* the last operation: "parse" or "reload"
    patFetches,               \* the number of fetches that operation issued
    patReply,                 \* what its fetch met (NoFetch when none)
    okBefore,                 \* history: when that operation began, the most
                              \* recent fetch had been a successful load
    loaderRanBefore,          \* history: a parse attempt had already run the
                              \* loader, with no reload call since
    parsed                    \* what parse_custom_metrics returned

patternVars == <<_custom_metric_patterns, _patterns_loaded, patOp, patFetches,
                 patReply, okBefore, loaderRanBefore, parsed>>

VARIABLES
    stt_engine,     \* VoiceListener.stt_engine ("none" before __init__)
    recPhase,       \* "idle", "recording" or "done"
    elapsed,        \* time.time() - recording_start at the last frame
    silence_start,  \* None, or when the current silence timer started
    has_speech,     \* the has_speech flag of the batch engines
    recResult,      \* what listen_and_transcribe returned
    endReason,      \* how the loop ended: "phrase", "silence", "max", "error"
    sttAsked,       \* the engine was asked for a result on this recording
    speechSeen,     \* history: some frame of this recording was speech
    lastSpeech,     \* history: when the last speech frame was read (None: never)
    lastFrame,      \* history: the last frame read on this recording
    lastText        \* history: what the engine had to answer on that frame

recordVars == <<stt_engine, recPhase, elapsed, silence_start, has_speech,
                recResult, endReason, sttAsked, speechSeen, lastSpeech,
                lastFrame, lastText>>

VARIABLES
    _tts_instance,  \* TRUE once get_tts has constructed the TextToSpeech
    cache_files,    \* the common phrases whose cache file exists on disk
    spoken,         \* the text of the last speak call
    speakOutcome,   \* "returned", or the exception that left speak
    piper_proc,     \* the synthesis subprocess of the last speak call
    aplay_proc      \* the playback subprocess of the last speak call

ttsVars == <<_tts_instance, cache_files, spoken, speakOutcome, piper_proc, aplay_proc>>

VARIABLES
    pc,         \* where main is
    argSingle,  \* --single
    argNoWake,  \* --no-wake
    cycles,     \* history: the iterations of the main loop begun so far
    exitKind    \* how main ended

sessionVars == <<pc, argSingle, argNoWake, cycles, exitKind>>

VARIABLES
    parseOp,      \* the parser entry point last called ("none" before any call)
    utterance,    \* the text it was given
    stages,       \* history: the stages that call evaluated, in order
    modelReply,   \* what the generative model answered (NoModelReply: not asked)
    ruleUsed,     \* history: the rule of the built-in grammar that gave the
                  \* result ("none": no rule did)
    parseResult,  \* the ParsedIntent returned (NoIntent for None)
    confidence,   \* its confidence in tenths (0 with NoIntent)
    wordsNumber,  \* what the last call returned if it was words_to_number
                  \* (None for None, and after any other call)
    timeWords     \* what the last call returned if it was parse_time_words
                  \* (NoTime after any other call)

parserVars == <<parseOp, utterance, stages, modelReply, ruleUsed, parseResult, confidence,
                wordsNumber, timeWords>>

vars == <<dispatchVars, wakeVars, patternVars, recordVars, ttsVars, sessionVars, parserVars>>

(***************************************************************************)
(* Values.  Parameter values are integers; None is Python's None.  Weights *)
(* are fixed-point numbers with WeightScale units per kilogram or pound;    *)
(* a spoken number has one decimal, and the pound-to-kilogram factor        *)
(* 0.453592 is LbToKg / KgToKg on such a number.  A food name is an         *)
(* identifier, 0 being the empty string.                                    *)
(***************************************************************************)
None == -1
WeightScale == 10000000
LbToKg == 453592
KgToKg == 1000000

Truthy(v) == v # None /\ v # 0

ParamNames ==
    {"calories", "food", "quantity", "unit", "weight_lbs", "weight_kg",
     "hours", "hour", "minute", "am", "servings", "duration_minutes",
     "metric_id", "metric_name", "value"}

NoParams == [k \in ParamNames |-> None]

\* dict.get(key, default)
Get(params, k, default) == IF params[k] = None THEN default ELSE params[k]

VoiceEntry == 99      \* the default meal name "Voice entry"
ServingUnit == 98     \* the default unit "serving"
MetricDefaultName == 97
Today == "today"      \* date.today().isoformat()

(***************************************************************************)
(* What the API does with one request: a reply (status, JSON body or not,   *)
(* optional "message" and first warning, and for a lookup the list of       *)
(* records and the key of the JSON object that wraps it, "" for a bare      *)
(* list), or an exception of the requests library.  ConnectTimeout derives  *)
(* from ConnectionError; ReadTimeout derives from Timeout only.             *)
(***************************************************************************)
Reply(code, isJson, msg, warn, list) ==
    [net |-> "reply", status |-> code, json |-> isJson,
     message |-> msg, warning |-> warn, items |-> list, calories |-> 250,
     listKey |-> ""]

NetFail(kind) ==
    [net |-> kind, status |-> 0, json |-> FALSE,
     message |-> "", warning |-> "", items |-> <<>>, calories |-> 0,
     listKey |-> ""]

\* jsonify({k: list}): a reply whose list is wrapped in an object under key k
Keyed(r, k) == [r EXCEPT !.listKey = k]

\* records of a list reply: a food match, or a custom metric whose name may
\* contain "vegetable"
Item(n, isVeg) == [id |-> n, veg |-> isVeg]

ServerErrorText == "Value out of range"
WarningText == "Unusually high value"

NetFailures == {NetFail("ConnectionError"), NetFail("ConnectTimeout"), NetFail("ReadTimeout")}

PostOutcomes ==
    {Reply(200, TRUE, "", "", <<>>), Reply(200, TRUE, "", WarningText, <<>>),
     Reply(400, TRUE, ServerErrorText, "", <<>>), Reply(400, TRUE, "", "", <<>>),
     Reply(500, FALSE, "", "", <<>>)} \cup NetFailures

\* GET /api/foods/search: search_foods_api answers {"foods": results}; a
\* bare list is what cmd_add_food indexes
SearchOutcomes ==
    {Keyed(Reply(200, TRUE, "", "", <<>>), "foods"),
     Keyed(Reply(200, TRUE, "", "", <<Item(41, FALSE)>>), "foods"),
     Reply(200, TRUE, "", "", <<>>), Reply(200, TRUE, "", "", <<Item(41, FALSE)>>),
     Reply(404, TRUE, ServerErrorText, "", <<>>),
     Reply(500, FALSE, "", "", <<>>)} \cup NetFailures

\* GET /api/custom-metrics: get_custom_metrics answers {"metrics": [...]}
MetricsOutcomes ==
    {Keyed(Reply(200, TRUE, "", "", <<>>), "metrics"),
     Keyed(Reply(200, TRUE, "", "", <<Item(41, FALSE)>>), "metrics"),
     Keyed(Reply(200, TRUE, "", "", <<Item(41, FALSE), Item(42, TRUE)>>), "metrics"),
     Reply(404, TRUE, ServerErrorText, "", <<>>),
     Reply(500, FALSE, "", "", <<>>)} \cup NetFailures

GetOutcomes == SearchOutcomes \cup MetricsOutcomes

Outcomes == PostOutcomes \cup GetOutcomes

\* isinstance(e, requests.exceptions.ConnectionError)
IsConnectionError(kind) == kind \in {"ConnectionError", "ConnectTimeout"}

(***************************************************************************)
(* CommandResult and requests                                              *)
(***************************************************************************)
Msg(t, d) == [text |-> t, detail |-> d]
CommandResult(ok, msg) == [message |-> msg, success |-> ok, raised |-> FALSE]
Out(ok, msg, rs) == [result |-> CommandResult(ok, msg), reqs |-> rs]

Unreachable == Msg("Cannot connect to dashboard server.", "")

\* an endpoint: its path, and the identifier or query interpolated into it
Url(p, a) == [path |-> p, arg |-> a]

_api_post(url, payload) == [method |-> "POST", endpoint |-> url, data |-> payload]
_api_get(url) == [method |-> "GET", endpoint |-> url, data |-> <<>>]

\* the two except clauses that close every handler
Except(r, generic, reqs) ==
    IF IsConnectionError(r.net) THEN Out(FALSE, Unreachable, reqs)
    ELSE Out(FALSE, Msg(generic, ""), reqs)

\* response.json().get("message", default)
ErrorText(r, default) == IF r.message = "" THEN default ELSE r.message

(***************************************************************************)
(* The handlers.  env is the sequence of API outcomes the handler's         *)
(* requests meet, in order; the handler consumes as many as it issues.      *)
(***************************************************************************)
cmd_add_calories(params, env) ==
    LET calories == params["calories"]
        food == Get(params, "food", VoiceEntry)
        req == _api_post(Url("/api/calories", None),
                         [calories |-> calories, date |-> Today, meal_name |-> food])
        r == env[1]
        generic == "An error occurred while adding calories."
    IN  IF ~Truthy(calories)
        THEN Out(FALSE, Msg("I didn't catch the calorie amount.", ""), <<>>)
        ELSE IF r.net # "reply" \/ ~r.json THEN Except(r, generic, <<req>>)
        ELSE IF r.status = 200
             THEN Out(TRUE, Msg("Added calories", r.warning), <<req>>)
             ELSE Out(FALSE, Msg("Failed to add calories: ", ErrorText(r, "Unknown error")), <<req>>)

cmd_add_food(params, env) ==
    LET food == params["food"]
        quantity == params["quantity"]
        unit == Get(params, "unit", ServingUnit)
        generic == "An error occurred while adding food."
        notFound == Msg("I couldn't find the food in the database.", "")
        search == _api_get(Url("/api/foods/search", food))
        r1 == env[1]
        found_food == r1.items[1]
        food_id == found_food.id
        quantity_str == <<quantity, unit>>
        compute == _api_post(Url("/api/foods/compute", None),
                             [quantity |-> quantity_str, food_id |-> food_id])
        r2 == env[2]
        calories == r2.calories
        add == _api_post(Url("/api/calories", None),
                         [calories |-> calories, date |-> Today, meal_name |-> found_food.id,
                          quantity |-> quantity_str, food_id |-> food_id])
        r3 == env[3]
    IN  IF ~Truthy(food) \/ ~Truthy(quantity)
        THEN Out(FALSE, Msg("I need both a food name and quantity.", ""), <<>>)
        ELSE IF r1.net # "reply" THEN Except(r1, generic, <<search>>)
        ELSE IF r1.status # 200 THEN Out(FALSE, notFound, <<search>>)
        ELSE IF ~r1.json THEN Except(r1, generic, <<search>>)
        ELSE IF r1.listKey = "" /\ r1.items = <<>> THEN Out(FALSE, notFound, <<search>>)
        ELSE IF r1.listKey # "" THEN Except(r1, generic, <<search>>)  \* foods[0] on a dict
        ELSE IF r2.net # "reply" THEN Except(r2, generic, <<search, compute>>)
        ELSE IF ~r2.json THEN Except(r2, generic, <<search, compute>>)
        ELSE IF r2.status # 200
             THEN Out(FALSE, Msg("Couldn't compute calories: ", ErrorText(r2, "Computation failed")),
                      <<search, compute>>)
        ELSE IF r3.net # "reply" THEN Except(r3, generic, <<search, compute, add>>)
        ELSE IF r3.status = 200
             THEN IF ~r3.json THEN Except(r3, generic, <<search, compute, add>>)
                  ELSE Out(TRUE, Msg("Added food", ""), <<search, compute, add>>)
             ELSE Out(FALSE, Msg("Failed to add the food entry.", ""), <<search, compute, add>>)

\* round(x, 1) on a fixed-point weight: to the nearest tenth
Round1(w) == ((w + (WeightScale \div 20)) \div (WeightScale \div 10)) * (WeightScale \div 10)

cmd_log_weight(params, env) ==
    LET weight_lbs == params["weight_lbs"]
        req == _api_post(Url("/api/weight", None), [date |-> Today, weight_lbs |-> Round1(weight_lbs)])
        r == env[1]
        generic == "An error occurred while logging weight."
    IN  IF ~Truthy(weight_lbs)
        THEN Out(FALSE, Msg("I didn't catch your weight.", ""), <<>>)
        ELSE IF r.net # "reply" \/ ~r.json THEN Except(r, generic, <<req>>)
        ELSE IF r.status = 200
             THEN Out(TRUE, Msg("Logged weight", r.warning), <<req>>)
             ELSE Out(FALSE, Msg("Failed to log weight: ", ErrorText(r, "Unknown error")), <<req>>)

cmd_log_sleep(params, env) ==
    LET hours == params["hours"]
        req == _api_post(Url("/api/sleep", None), [date |-> Today, hours |-> hours])
        r == env[1]
        generic == "An error occurred while logging sleep."
    IN  IF ~Truthy(hours)
        THEN Out(FALSE, Msg("I didn't catch how many hours you slept.", ""), <<>>)
        ELSE IF r.net # "reply" \/ ~r.json THEN Except(r, generic, <<req>>)
        ELSE IF r.status = 200
             THEN Out(TRUE, Msg("Logged sleep", r.warning), <<req>>)
             ELSE Out(FALSE, Msg("Failed to log sleep: ", ErrorText(r, "Unknown error")), <<req>>)

cmd_log_wake(params, env) ==
    LET hour0 == Get(params, "hour", 7)
        minute == Get(params, "minute", 0)
        hour == IF hour0 = 12 /\ Truthy(params["am"]) THEN 0 ELSE hour0
        wake_time == <<hour, minute, 0>>
        req == _api_post(Url("/api/wake", None), [date |-> Today, wake_time |-> wake_time])
        r == env[1]
        generic == "An error occurred while logging wake time."
    IN  IF r.net # "reply" \/ ~r.json THEN Except(r, generic, <<req>>)
        ELSE IF r.status = 200
             THEN Out(TRUE, Msg("Logged wake time", ""), <<req>>)
             ELSE Out(FALSE, Msg("Failed to log wake time: ", ErrorText(r, "Unknown error")), <<req>>)

cmd_log_vegetables(params, env) ==
    LET servings == params["servings"]
        generic == "An error occurred while logging vegetables."
        lookup == _api_get(Url("/api/custom-metrics", None))
        r1 == env[1]
        metrics == IF r1.listKey = "metrics" THEN r1.items ELSE <<>>
        vegs == {i \in 1..Len(metrics) : metrics[i].veg}
        veg_metric == metrics[CHOOSE i \in vegs : \A j \in vegs : i <= j]
        add == _api_post(Url("/api/custom-metrics/{id}/entries", veg_metric.id),
                         [date |-> Today, value |-> servings])
        r2 == env[2]
    IN  IF ~Truthy(servings)
        THEN Out(FALSE, Msg("I didn't catch the number of servings.", ""), <<>>)
        ELSE IF r1.net # "reply" THEN Except(r1, generic, <<lookup>>)
        ELSE IF r1.status # 200 THEN Out(FALSE, Msg("Failed to get custom metrics.", ""), <<lookup>>)
        ELSE IF ~r1.json THEN Except(r1, generic, <<lookup>>)
        ELSE IF vegs = {} THEN Out(FALSE, Msg("Vegetable tracking is not set up.", ""), <<lookup>>)
        ELSE IF r2.net # "reply" THEN Except(r2, generic, <<lookup, add>>)
        ELSE IF r2.status = 200
             THEN IF ~r2.json THEN Except(r2, generic, <<lookup, add>>)
                  ELSE Out(TRUE, Msg("Logged servings of vegetables.", ""), <<lookup, add>>)
             ELSE Out(FALSE, Msg("Failed to log vegetables.", ""), <<lookup, add>>)

cmd_log_workout(params, env) ==
    LET duration == params["duration_minutes"]
        req == _api_post(Url("/api/workout", None),
                         [date |-> Today, duration_minutes |-> duration, workout_type |-> "General"])
        r == env[1]
        generic == "An error occurred while logging workout."
    IN  IF ~Truthy(duration)
        THEN Out(FALSE, Msg("I didn't catch the workout duration.", ""), <<>>)
        ELSE IF r.net # "reply" THEN Except(r, generic, <<req>>)
        ELSE IF ~r.json THEN Except(r, generic, <<req>>)
        ELSE IF r.status = 200
             THEN Out(TRUE, Msg("Logged a workout.", ""), <<req>>)
             ELSE Out(FALSE, Msg("Failed to log workout: ", ErrorText(r, "Unknown error")), <<req>>)

cmd_log_custom_metric(params, env) ==
    LET metric_id == params["metric_id"]
        metric_name == Get(params, "metric_name", MetricDefaultName)
        value == params["value"]
        req == _api_post(Url("/api/custom-metrics/{id}/entries", metric_id),
                         [date |-> Today, value |-> value])
        r == env[1]
        generic == "An error occurred while logging the metric."
    IN  IF ~Truthy(metric_id) \/ value = None
        THEN Out(FALSE, Msg("Missing metric or value.", ""), <<>>)
        ELSE IF r.net # "reply" THEN Except(r, generic, <<req>>)
        ELSE IF r.status = 200
             THEN IF ~r.json THEN Except(r, generic, <<req>>)
                  ELSE Out(TRUE, Msg("Logged the metric.", ""), <<req>>)
             ELSE Out(FALSE, Msg("Failed to log the metric.", ""), <<req>>)

COMMAND_HANDLERS ==
    {"add_calories", "add_food", "log_weight", "log_sleep", "log_wake",
     "log_vegetables", "log_workout", "log_custom_metric"}

execute_command(intent, env) ==
    IF intent.intent \notin COMMAND_HANDLERS
    THEN Out(FALSE, Msg("I don't know how to handle that command.", ""), <<>>)
    ELSE CASE intent.intent = "add_calories" -> cmd_add_calories(intent.params, env)
           [] intent.intent = "add_food" -> cmd_add_food(intent.params, env)
           [] intent.intent = "log_weight" -> cmd_log_weight(intent.params, env)
           [] intent.intent = "log_sleep" -> cmd_log_sleep(intent.params, env)
           [] intent.intent = "log_wake" -> cmd_log_wake(intent.params, env)
           [] intent.intent = "log_vegetables" -> cmd_log_vegetables(intent.params, env)
           [] intent.intent = "log_workout" -> cmd_log_workout(intent.params, env)
           [] intent.intent = "log_custom_metric" -> cmd_log_custom_metric(intent.params, env)

(***************************************************************************)
(* The weight rules of the parser's ordered rule list.  A weight utterance  *)
(* is "my weight is <number> <unit>" or "i weigh <number> <unit>"; number   *)
(* is the spoken number in tenths and unit the captured unit word ("" when  *)
(* the optional group did not match).                                       *)
(***************************************************************************)
PoundWords == {"lb", "lbs", "pound", "pounds"}
KiloWords == {"kg", "kilo", "kilos"}
WeightUnitWords == PoundWords \cup KiloWords \cup {""}

convert_weight_unconverted(value, unit) == value * KgToKg

convert_weight_to_kg(value, unit) ==
    IF unit \in PoundWords THEN value * LbToKg
    ELSE value * KgToKg

ParsedIntent(name, ps) == [params |-> ps, intent |-> name]

WithParam(params, k, v) == [params EXCEPT ![k] = v]

WeightRule(number, unit) ==
    ParsedIntent("log_weight", WithParam(NoParams, "weight_kg", convert_weight_to_kg(number, unit)))

(***************************************************************************)
(* Inputs of the dispatcher                                                 *)
(***************************************************************************)
SpokenWeights == {820, 1505, 1800}

KeysOf(intent) ==
    CASE intent = "add_calories" -> {"calories", "food"}
      [] intent = "add_food" -> {"food", "quantity", "unit"}
      [] intent = "log_weight" -> {"weight_lbs", "weight_kg"}
      [] intent = "log_sleep" -> {"hours"}
      [] intent = "log_wake" -> {"hour", "minute", "am"}
      [] intent = "log_vegetables" -> {"servings"}
      [] intent = "log_workout" -> {"duration_minutes"}
      [] intent = "log_custom_metric" -> {"metric_id", "metric_name", "value"}
      [] OTHER -> {}

ValuesOf(k) ==
    CASE k \in {"weight_lbs", "weight_kg"} -> {None, 0, 180 * WeightScale}
      [] k = "hour" -> {None, 7, 12}
      [] k = "minute" -> {None, 30}
      [] k = "am" -> {None, 1}
      [] k \in {"unit", "metric_name", "food"} -> {None, 3}
      [] OTHER -> {None, 0, 2}

AllValues == UNION {ValuesOf(k) : k \in ParamNames}

ParamsOf(intent) ==
    {[k \in ParamNames |-> IF k \in KeysOf(intent) THEN g[k] ELSE None] :
        g \in {h \in [KeysOf(intent) -> AllValues] : \A k \in KeysOf(intent) : h[k] \in ValuesOf(k)}}

IntentNames == COMMAND_HANDLERS \cup {"set_alarm"}

InitDispatch ==
    /\ cmdIntent = ParsedIntent("none", NoParams)
    /\ cmdFromParser = FALSE
    /\ cmdResult = CommandResult(FALSE, Msg("", ""))
    /\ requests = <<>>
    /\ apiReplies = <<>>

\* the API outcomes a request can meet
OutcomesFor(req) ==
    IF req.method = "POST" THEN PostOutcomes
    ELSE IF req.endpoint.path = "/api/foods/search" THEN SearchOutcomes
    ELSE MetricsOutcomes

\* stands for the outcome of a request that is never issued
Unused == NetFail("unused")

\* the outcomes of request i, given those of the requests before it: the
\* handler decides from them whether it issues request i at all
OutcomesAt(intent, env, i) ==
    LET reqs == execute_command(intent, env).reqs
    IN  IF Len(reqs) >= i THEN OutcomesFor(reqs[i]) ELSE {Unused}

\* every way the API can behave during one execute_command call
EnvsOf(intent) ==
    UNION { UNION { { <<r1, r2, r3>> : r3 \in OutcomesAt(intent, <<r1, r2, Unused>>, 3) } :
                    r2 \in OutcomesAt(intent, <<r1, Unused, Unused>>, 2) } :
            r1 \in OutcomesAt(intent, <<Unused, Unused, Unused>>, 1) }

\* execute_command on any ParsedIntent
ExecuteCommand ==
    \E name \in IntentNames : \E params \in ParamsOf(name) :
    \E env \in EnvsOf(ParsedIntent(name, params)) :
        LET out == execute_command(ParsedIntent(name, params), env)
        IN  /\ cmdIntent' = ParsedIntent(name, params)
            /\ cmdFromParser' = FALSE
            /\ cmdResult' = out.result
            /\ requests' = out.reqs
            /\ apiReplies' = SubSeq(env, 1, Len(out.reqs))
            /\ UNCHANGED <<wakeVars, patternVars, recordVars, ttsVars, sessionVars, parserVars>>

\* a weight utterance parsed and dispatched (parse_intent, then execute_command)
SayWeight ==
    \E number \in SpokenWeights : \E unit \in WeightUnitWords :
    \E env \in EnvsOf(WeightRule(number, unit)) :
        LET out == execute_command(WeightRule(number, unit), env)
        IN  /\ cmdIntent' = WeightRule(number, unit)
            /\ cmdFromParser' = TRUE
            /\ cmdResult' = out.result
            /\ requests' = out.reqs
            /\ apiReplies' = SubSeq(env, 1, Len(out.reqs))
            /\ UNCHANGED <<wakeVars, patternVars, recordVars, ttsVars, sessionVars, parserVars>>

(***************************************************************************)
(* Claims about the dispatcher                                              *)
(***************************************************************************)
\* the parameters without which a handler has nothing to log
RequiredParams(intent) ==
    CASE intent = "add_calories" -> {"calories"}
      [] intent = "add_food" -> {"food", "quantity"}
      [] intent = "log_weight" -> {"weight_lbs"}
      [] intent = "log_sleep" -> {"hours"}
      [] intent = "log_wake" -> {"hour"}
      [] intent = "log_vegetables" -> {"servings"}
      [] intent = "log_workout" -> {"duration_minutes"}
      [] intent = "log_custom_metric" -> {"metric_id", "value"}
      [] OTHER -> {}

MissingMessages ==
    {"I didn't catch the calorie amount.", "I need both a food name and quantity.",
     "I didn't catch your weight.", "I didn't catch how many hours you slept.",
     "I didn't catch the wake time.", "I didn't catch the number of servings.",
     "I didn't catch the workout duration.", "Missing metric or value."}

\* C1: a handler reached through execute_command with a required parameter
\* absent returns success=false with a message naming what was missing and
\* issues no outbound HTTP request.
C1_MissingParamNoRequest ==
    (\E k \in RequiredParams(cmdIntent.intent) : cmdIntent.params[k] = None)
        => /\ ~cmdResult.success
           /\ cmdResult.message.text \in MissingMessages
           /\ requests = <<>>

\* C2: a log_weight intent of the parser (params carry weight_kg) makes
\* execute_command issue one write to the weight endpoint whose payload
\* carries that weight in kilograms, and succeed when the API accepts it.
C2_ParsedWeightIsWritten ==
    (cmdFromParser /\ cmdIntent.intent = "log_weight")
        => /\ Len(requests) = 1
           /\ requests[1].method = "POST"
           /\ requests[1].endpoint.path = "/api/weight"
           /\ \E f \in DOMAIN requests[1].data \ {"date"} :
                  requests[1].data[f] \in {cmdIntent.params["weight_kg"],
                                           Round1(cmdIntent.params["weight_kg"])}
           /\ (apiReplies[1].net = "reply" /\ apiReplies[1].status = 200 /\ apiReplies[1].json
                  => cmdResult.success)

NetworkFailures == {"ConnectionError", "ConnectTimeout", "ReadTimeout"}

\* C10: when an outbound API call fails at the network level (connection
\* refused, connect timeout, read timeout), execute_command returns
\* success=false with the server-unreachable message and raises nothing.
C10_NetworkFailureUnreachable ==
    (\E i \in 1..Len(apiReplies) : apiReplies[i].net \in NetworkFailures)
        => cmdResult = CommandResult(FALSE, Unreachable)

\* the logging endpoints: a POST to one of them is a primary write
LogEndpoints ==
    {"/api/calories", "/api/weight", "/api/sleep", "/api/wake", "/api/workout",
     "/api/custom-metrics/{id}/entries"}

IsPrimaryWrite(req) == req.method = "POST" /\ req.endpoint.path \in LogEndpoints

\* the requests of the last call that were primary writes
Writes == {i \in 1..Len(requests) : IsPrimaryWrite(requests[i])}

\* the API answered request i with a non-success status and an error text
RefusedWithText(i) ==
    /\ apiReplies[i].net = "reply"
    /\ apiReplies[i].status # 200
    /\ apiReplies[i].json
    /\ apiReplies[i].message # ""

\* C11: when the API answers a handler's primary write with a non-success
\* status that carries an error text, the CommandResult has success=false
\* and its message contains the server's error text.
C11_WriteErrorTextSurfaced ==
    \A i \in Writes :
        RefusedWithText(i)
            => ~cmdResult.success /\ cmdResult.message.detail = apiReplies[i].message

\* the API accepted request i: status 200 with a JSON body
Accepted(i) ==
    apiReplies[i].net = "reply" /\ apiReplies[i].status = 200 /\ apiReplies[i].json

\* C12: for an add_food intent with food and quantity present, when the
\* food-search endpoint replies with at least one match (and the calls that
\* follow are accepted), cmd_add_food takes the first match's identifier,
\* issues one compute call for the stated quantity and unit, then exactly one
\* write to the calories endpoint carrying the computed calories, and
\* returns success=true.
C12_FoodLookupThenOneWrite ==
    (/\ cmdIntent.intent = "add_food"
     /\ Truthy(cmdIntent.params["food"]) /\ Truthy(cmdIntent.params["quantity"])
     /\ Len(apiReplies) >= 1
     /\ Accepted(1) /\ apiReplies[1].items # <<>>
     /\ \A i \in 2..Len(apiReplies) : Accepted(i))
        => /\ Len(requests) = 3
           /\ requests[2].endpoint.path = "/api/foods/compute"
           /\ requests[2].data.food_id = apiReplies[1].items[1].id
           /\ requests[2].data.quantity =
                  <<cmdIntent.params["quantity"], Get(cmdIntent.params, "unit", ServingUnit)>>
           /\ Writes = {3}
           /\ requests[3].endpoint.path = "/api/calories"
           /\ requests[3].data.calories = apiReplies[2].calories
           /\ cmdResult.success

\* the parameters a handler checks before it issues any request
CheckedParams(intent) == IF intent = "log_wake" THEN {} ELSE RequiredParams(intent)

\* the handler's validation passes
ValidationOk ==
    /\ cmdIntent.intent \in COMMAND_HANDLERS
    /\ \A k \in CheckedParams(cmdIntent.intent) :
          IF k = "value" THEN cmdIntent.params[k] # None ELSE Truthy(cmdIntent.params[k])

\* lookup i found what the handler asked for
LookupOk(i) ==
    /\ Accepted(i)
    /\ requests[i].endpoint.path = "/api/foods/search" => apiReplies[i].items # <<>>
    /\ requests[i].endpoint.path = "/api/custom-metrics"
          => \E j \in 1..Len(apiReplies[i].items) : apiReplies[i].items[j].veg

LookupsOk == \A i \in 1..Len(requests) : ~IsPrimaryWrite(requests[i]) => LookupOk(i)

\* C13: every execute_command call issues at most one primary write; exactly
\* one when validation and all secondary lookups succeed, and none when
\* validation fails, a lookup fails, or the intent has no handler.
C13_OnePrimaryWrite ==
    /\ Cardinality(Writes) <= 1
    /\ (cmdIntent.intent # "none" /\ ValidationOk /\ LookupsOk) => Cardinality(Writes) = 1
    /\ (~ValidationOk \/ ~LookupsOk) => Writes = {}

(***************************************************************************)
(* voice/listener.py: wait_for_wake_word and its refractory period.         *)
(* Time is counted in ticks of half a second.                               *)
(***************************************************************************)
WAKE_WORD_REFRACTORY == 4

MaxTime == 14       \* the clock stops here
MaxOversleep == 1   \* time.sleep may return this much late
MaxListen == 2      \* longest wait for a frame that crosses the threshold
MaxGap == 3         \* longest pause between two calls

InitWake ==
    /\ now = 0
    /\ last_wake_time = 0
    /\ detections = <<>>
    /\ wakeReturn = "none"

\* the time wait_for_wake_word sleeps before it listens
RefractoryWaitSkipped(t, last) == 0

RefractoryWait(t, last) ==
    LET time_since_last == t - last
    IN  IF time_since_last < WAKE_WORD_REFRACTORY
        THEN WAKE_WORD_REFRACTORY - time_since_last
        ELSE 0

\* one wait_for_wake_word call: the refractory sleep, then frames are read
\* until one scores above the threshold or the stream fails
WaitForWakeWord ==
    \E oversleep \in 0..MaxOversleep : \E listen \in 0..MaxListen :
    \E outcome \in {"detected", "stream_error"} :
        LET wait_time == RefractoryWait(now, last_wake_time)
            slept == IF wait_time > 0 THEN wait_time + oversleep ELSE 0
            end == now + slept + listen
        IN  /\ end <= MaxTime
            /\ now' = end
            /\ IF outcome = "detected"
               THEN /\ last_wake_time' = end
                    /\ detections' = Append(detections, end)
                    /\ wakeReturn' = "True"
               ELSE /\ UNCHANGED <<last_wake_time, detections>>
                    /\ wakeReturn' = "False"
            /\ UNCHANGED <<dispatchVars, patternVars, recordVars, ttsVars, sessionVars, parserVars>>

\* the rest of a session cycle takes time
Elapse ==
    \E d \in 1..MaxGap :
        /\ now + d <= MaxTime
        /\ now' = now + d
        /\ UNCHANGED <<last_wake_time, detections, wakeReturn>>
        /\ UNCHANGED <<dispatchVars, patternVars, recordVars, ttsVars, sessionVars, parserVars>>

\* C3: any two accepted wake detections are at least the refractory interval
\* apart.
C3_RefractoryBetweenDetections ==
    \A i, j \in 1..Len(detections) :
        i < j => detections[j] - detections[i] >= WAKE_WORD_REFRACTORY

\* two detections exactly one refractory interval apart: the second call
\* started inside the interval and had to sleep
C3_Witness ==
    /\ Len(detections) >= 2
    /\ detections[2] - detections[1] = WAKE_WORD_REFRACTORY

(***************************************************************************)
(* voice/intent.py: text.  An utterance is the sequence of its tokens as    *)
(* str.split and the \s, \b and \d of the patterns see them, in lower case: *)
(* a word, a comma, or a number written in digits.  Numbers are fixed-point *)
(* with two decimals, NumScale units per one.                               *)
(***************************************************************************)
NumScale == 100

Word(s) == [word |-> s, num |-> None]
Digits(v) == [word |-> "#", num |-> v]
Comma == Word(",")

IsDigits(t) == t.word = "#"
IsWhole(t) == IsDigits(t) /\ t.num % NumScale = 0

\* the words of a phrase as tokens
RECURSIVE Words(_)
Words(ss) == IF ss = <<>> THEN <<>> ELSE <<Word(Head(ss))>> \o Words(Tail(ss))

WORD_NUMBERS ==
    [w \in {"zero", "one", "two", "three", "four", "five", "six", "seven", "eight", "nine",
            "ten", "eleven", "twelve", "thirteen", "fourteen", "fifteen", "sixteen",
            "seventeen", "eighteen", "nineteen", "twenty", "thirty", "forty", "fifty",
            "sixty", "seventy", "eighty", "ninety", "hundred", "thousand", "half",
            "quarter"} |->
        CASE w = "zero" -> 0 [] w = "one" -> 100 [] w = "two" -> 200 [] w = "three" -> 300
          [] w = "four" -> 400 [] w = "five" -> 500 [] w = "six" -> 600 [] w = "seven" -> 700
          [] w = "eight" -> 800 [] w = "nine" -> 900 [] w = "ten" -> 1000
          [] w = "eleven" -> 1100 [] w = "twelve" -> 1200 [] w = "thirteen" -> 1300
          [] w = "fourteen" -> 1400 [] w = "fifteen" -> 1500 [] w = "sixteen" -> 1600
          [] w = "seventeen" -> 1700 [] w = "eighteen" -> 1800 [] w = "nineteen" -> 1900
          [] w = "twenty" -> 2000 [] w = "thirty" -> 3000 [] w = "forty" -> 4000
          [] w = "fifty" -> 5000 [] w = "sixty" -> 6000 [] w = "seventy" -> 7000
          [] w = "eighty" -> 8000 [] w = "ninety" -> 9000 [] w = "hundred" -> 10000
          [] w = "thousand" -> 100000 [] w = "half" -> 50 [] w = "quarter" -> 25]

\* the for loop of words_to_number over words[i..]
RECURSIVE WordsLoop(_, _, _, _)
WordsLoop(ts, i, total, current) ==
    IF i > Len(ts) THEN total + current
    ELSE LET t == ts[i]
         IN  IF t.word \in DOMAIN WORD_NUMBERS
             THEN LET val == WORD_NUMBERS[t.word]
                  IN  IF val = 100 * NumScale
                      THEN WordsLoop(ts, i + 1, total,
                                     IF current # 0 THEN current * 100 ELSE 100 * NumScale)
                      ELSE IF val = 1000 * NumScale
                      THEN WordsLoop(ts, i + 1,
                                     total + (IF current # 0 THEN current * 1000
                                              ELSE 1000 * NumScale), 0)
                      ELSE WordsLoop(ts, i + 1, total, current + val)
             ELSE IF IsDigits(t) THEN WordsLoop(ts, i + 1, total, current + t.num)
             ELSE WordsLoop(ts, i + 1, total, current)

\* words_to_number(text): None when the phrase denotes nothing above zero
words_to_number(ts) ==
    IF Len(ts) = 1 /\ IsDigits(ts[1]) THEN ts[1].num
    ELSE LET total == WordsLoop(ts, 1, 0, 0)
         IN  IF total > 0 THEN total ELSE None

\* re.search(r'woke|wake', text)
HasWake(ts) == \E i \in 1..Len(ts) : ts[i].word \in {"woke", "wake"}

\* tokens ts[i..] start with the wanted words
StartsWith(ts, i, wanted) ==
    /\ i + Len(wanted) - 1 <= Len(ts)
    /\ \A k \in 1..Len(wanted) : ts[i + k - 1].word = wanted[k]

\* re.sub of "<w> and <fraction words>" by str(words_to_number(w) + part);
\* a number in digits before the fraction words is whole
RECURSIVE FractionSub(_, _, _, _)
FractionSub(ts, i, wanted, part) ==
    IF i > Len(ts) THEN <<>>
    ELSE IF ts[i] # Comma /\ StartsWith(ts, i + 1, <<"and">> \o wanted)
         THEN LET n == words_to_number(<<ts[i]>>)
                  matched == SubSeq(ts, i, i + Len(wanted) + 1)
              IN  (IF Truthy(n) THEN <<Digits(n + part)>> ELSE matched)
                      \o FractionSub(ts, i + Len(wanted) + 2, wanted, part)
         ELSE <<ts[i]>> \o FractionSub(ts, i + 1, wanted, part)

\* the number words of the general conversion pattern of preprocess_text
ConvertedWords == DOMAIN WORD_NUMBERS \ {"zero", "half", "quarter"}

\* the last token of the run of number words, joined by optional "and",
\* that starts at ts[j]
RECURSIVE RunEnd(_, _)
RunEnd(ts, j) ==
    IF j + 1 <= Len(ts) /\ ts[j + 1].word \in ConvertedWords THEN RunEnd(ts, j + 1)
    ELSE IF j + 2 <= Len(ts) /\ ts[j + 1].word = "and" /\ ts[j + 2].word \in ConvertedWords
         THEN RunEnd(ts, j + 2)
    ELSE j

\* re.sub of every run of number words by str(int(words_to_number(run)))
RECURSIVE ConvertRuns(_, _)
ConvertRuns(ts, i) ==
    IF i > Len(ts) THEN <<>>
    ELSE IF ts[i].word \in ConvertedWords
         THEN LET j == RunEnd(ts, i)
                  n == words_to_number(SubSeq(ts, i, j))
              IN  (IF Truthy(n) THEN <<Digits((n \div NumScale) * NumScale)>>
                   ELSE SubSeq(ts, i, j)) \o ConvertRuns(ts, j + 1)
         ELSE <<ts[i]>> \o ConvertRuns(ts, i + 1)

preprocess_text(ts) ==
    IF HasWake(ts) THEN ts
    ELSE LET halves == FractionSub(ts, 1, <<"a", "half">>, 50)
             quarters == FractionSub(halves, 1, <<"a", "quarter">>, 25)
             threes == FractionSub(FractionSub(quarters, 1, <<"three", "quarters">>, 75),
                                   1, <<"three", "quarter">>, 75)
         IN  ConvertRuns(threes, 1)

(***************************************************************************)
(* voice/intent.py: the custom-metric pattern cache                         *)
(***************************************************************************)
MaxMetrics == 2   \* longest metric list in a reply

\* a record of the "metrics" list; None and MissingName stand for a missing key
MissingName == "<no name>"

Metric(n, nm, kw) == [id |-> n, name |-> nm, voice_keyword |-> kw]

MetricRecords ==
    {Metric(1, "Medication", "medication"), Metric(2, "Pills", "medication"),
     Metric(3, "Mood", ""), Metric(None, "Steps", "steps")}

MetricLists == UNION {[1..n -> MetricRecords] : n \in 0..MaxMetrics}

\* what a fetch of /api/custom-metrics can meet
MetricsReply(kind, code, isJson, ms) == [net |-> kind, status |-> code, json |-> isJson, metrics |-> ms]

NoFetch == MetricsReply("none", 0, FALSE, <<>>)

FetchOutcomes ==
    {MetricsReply("reply", 200, TRUE, ms) : ms \in MetricLists}
    \cup {MetricsReply("reply", 500, TRUE, <<>>), MetricsReply("reply", 200, FALSE, <<>>),
          MetricsReply("ConnectionError", 0, FALSE, <<>>),
          MetricsReply("ReadTimeout", 0, FALSE, <<>>)}

\* the pattern built for a metric: its keyword, then an optional comma, then digits
Pattern(m) == [id |-> m.id, name |-> m.name, keyword |-> m.voice_keyword]

\* the for loop of load_custom_metric_patterns over metrics[i..]: it stops at
\* the first record whose "id" or "name" is missing (KeyError)
RECURSIVE BuildPatterns(_, _, _)
BuildPatterns(metrics, i, acc) ==
    IF i > Len(metrics) THEN [patterns |-> acc, completed |-> TRUE]
    ELSE LET m == metrics[i]
         IN  IF m.voice_keyword = "" THEN BuildPatterns(metrics, i + 1, acc)
             ELSE IF m.id = None \/ m.name = MissingName
                  THEN [patterns |-> acc, completed |-> FALSE]
                  ELSE BuildPatterns(metrics, i + 1, Append(acc, Pattern(m)))

\* load_custom_metric_patterns: the cache and the flag after a fetch met reply
LoadNeverMarksLoaded(reply, pats, flag) ==
    LET real == IF reply.net = "reply" /\ reply.status = 200 /\ reply.json
                THEN BuildPatterns(reply.metrics, 1, <<>>).patterns ELSE pats
    IN  [patterns |-> real, loaded |-> flag]

load_custom_metric_patterns(reply, pats, flag) ==
    IF reply.net # "reply" \/ reply.status # 200 \/ ~reply.json
    THEN [patterns |-> pats, loaded |-> flag]
    ELSE LET built == BuildPatterns(reply.metrics, 1, <<>>)
         IN  [patterns |-> built.patterns, loaded |-> (flag \/ built.completed)]

\* utterances for the pattern check: a keyword with a number in digits, with
\* a comma between them, with a number word, and no keyword at all
Utterances ==
    {<<Word("medication"), Digits(2 * NumScale)>>,
     <<Word("medication"), Comma, Digits(2 * NumScale)>>,
     <<Word("medication"), Word("two")>>,
     <<Word("hello")>>}

NoIntent == ParsedIntent("none", NoParams)

\* re.search(metric["pattern"], text_lower): the positions of the keyword
\* where an optional comma and then digits follow it
PatternHits(pat, text) ==
    {i \in 1..Len(text) :
        /\ text[i].word = pat.keyword
        /\ \/ i + 1 <= Len(text) /\ IsDigits(text[i + 1])
           \/ i + 2 <= Len(text) /\ text[i + 1] = Comma /\ IsDigits(text[i + 2])}

\* float(match.group(1)) of the leftmost match
PatternValue(pat, text) ==
    LET i == CHOOSE h \in PatternHits(pat, text) : \A g \in PatternHits(pat, text) : h <= g
    IN  IF IsDigits(text[i + 1]) THEN text[i + 1].num ELSE text[i + 2].num

\* the matching loop of parse_custom_metrics: the first pattern that matches
RECURSIVE MatchPatterns(_, _, _)
MatchPatterns(pats, i, text) ==
    IF i > Len(pats) THEN NoIntent
    ELSE IF PatternHits(pats[i], text) # {}
         THEN ParsedIntent("log_custom_metric",
                  [NoParams EXCEPT !["metric_id"] = pats[i].id,
                                   !["metric_name"] = pats[i].name,
                                   !["value"] = PatternValue(pats[i], text)])
         ELSE MatchPatterns(pats, i + 1, text)

\* a fetch that is a successful load: a 200 reply with a JSON body whose
\* keyword-bearing records are all well formed
LoadOk(reply) ==
    /\ reply.net = "reply" /\ reply.status = 200 /\ reply.json
    /\ \A i \in 1..Len(reply.metrics) :
           reply.metrics[i].voice_keyword # ""
               => reply.metrics[i].id # None /\ reply.metrics[i].name # MissingName

\* the most recent fetch issued so far was a successful load
LastFetchOk == IF patFetches = 1 THEN LoadOk(patReply) ELSE okBefore

InitPatterns ==
    /\ _custom_metric_patterns = <<>>
    /\ _patterns_loaded = FALSE
    /\ patOp = "none"
    /\ patFetches = 0
    /\ patReply = NoFetch
    /\ okBefore = FALSE
    /\ loaderRanBefore = FALSE
    /\ parsed = NoIntent

\* parse_custom_metrics(text)
ParseCustomMetrics ==
    \E text \in Utterances :
    \E reply \in (IF _patterns_loaded THEN {NoFetch} ELSE FetchOutcomes) :
        LET after == IF _patterns_loaded
                     THEN [patterns |-> _custom_metric_patterns, loaded |-> TRUE]
                     ELSE load_custom_metric_patterns(reply, _custom_metric_patterns,
                                                      _patterns_loaded)
        IN  /\ _custom_metric_patterns' = after.patterns
            /\ _patterns_loaded' = after.loaded
            /\ patOp' = "parse"
            /\ patFetches' = IF _patterns_loaded THEN 0 ELSE 1
            /\ patReply' = reply
            /\ okBefore' = LastFetchOk
            /\ loaderRanBefore' = (patOp = "parse" /\ (patFetches = 1 \/ loaderRanBefore))
            /\ parsed' = MatchPatterns(after.patterns, 1, text)
            /\ UNCHANGED <<dispatchVars, wakeVars, recordVars, ttsVars, sessionVars, parserVars>>

\* reload_custom_patterns()
ReloadCustomPatterns ==
    \E reply \in FetchOutcomes :
        LET after == load_custom_metric_patterns(reply, _custom_metric_patterns, FALSE)
        IN  /\ _custom_metric_patterns' = after.patterns
            /\ _patterns_loaded' = after.loaded
            /\ patOp' = "reload"
            /\ patFetches' = 1
            /\ patReply' = reply
            /\ okBefore' = LastFetchOk
            /\ loaderRanBefore' = FALSE
            /\ UNCHANGED parsed
            /\ UNCHANGED <<dispatchVars, wakeVars, recordVars, ttsVars, sessionVars, parserVars>>

\* C4 as stated: once a parse attempt has run the loader, whether its fetch
\* succeeded or failed, further parse attempts with no reload in between
\* issue no fetch; every reload issues exactly one fetch.
C4_NoRefetchAfterAnyLoad ==
    /\ (patOp = "parse" /\ loaderRanBefore) => patFetches = 0
    /\ patOp = "reload" => patFetches = 1

\* C4 amended: once a fetch has been a successful load, further parse
\* attempts with no reload in between issue no fetch; every reload issues
\* exactly one fetch, whatever the cache state.
C4_NoRefetchAfterSuccessfulLoad ==
    /\ (patOp = "parse" /\ okBefore) => patFetches = 0
    /\ patOp = "reload" => patFetches = 1

\* a parse attempt that found the cache loaded by an earlier parse attempt
C4_Witness ==
    /\ patOp = "parse" /\ loaderRanBefore /\ okBefore
    /\ patFetches = 0

\* C14: after every load or reload attempt, whatever its outcome, the cached
\* pattern list is either the complete list built from the newly fetched
\* reply or the list as it was before the attempt, never a partial list.
C14_FullReplaceOnly ==
    [][patFetches' = 1
          => \/ _custom_metric_patterns' = _custom_metric_patterns
             \/ /\ LoadOk(patReply')
                /\ _custom_metric_patterns' = BuildPatterns(patReply'.metrics, 1, <<>>).patterns]_vars

(***************************************************************************)
(* voice/intent.py: the built-in grammar.  A rule of PATTERNS is an         *)
(* operator from the tokens of the text to the ParsedIntent its pattern and *)
(* extractor give, NoIntent when the pattern matches nowhere.  Integer      *)
(* parameters (int(...)) are integers; float parameters (float(...)) are    *)
(* fixed-point with NumScale units per one; a food name is its tokens.      *)
(***************************************************************************)
\* the token at position i, an empty word past either end
Tok(ts, i) == IF i \in 1..Len(ts) THEN ts[i] ELSE Word("")

\* leftmost match of re.search
Least(S) == CHOOSE x \in S : \A y \in S : x <= y

\* int() of the \d+ that a number in digits starts with
IntOf(t) == t.num \div NumScale

\* int() of the \d+ that a number in digits ends with
TailInt(t) ==
    LET f == t.num % NumScale
    IN  IF f = 0 THEN IntOf(t) ELSE IF f % 10 = 0 THEN f \div 10 ELSE f

\* the first two digits of a whole number: \d{1,2} and \d{2}
RECURSIVE LeadingDigits(_)
LeadingDigits(n) == IF n < 100 THEN n ELSE LeadingDigits(n \div 10)

\* the position after an optional word: (?:up\s+)?, (?:of\s+)?, ...; the
\* word is taken only when a token follows it
SkipWord(ts, i, ws) ==
    IF Tok(ts, i).word \in ws /\ i < Len(ts) THEN i + 1 ELSE i

\* add(?:ed)?|log(?:ged)?|ate|had
Verbs == {"add", "added", "log", "logged", "ate", "had"}

\* calories?|cals?|kcal
CalorieWords == {"calorie", "calories", "cal", "cals", "kcal"}

\* rule 1: <verb> <digits> calories
CaloriesDirect(ts) ==
    LET hits == {i \in 1..Len(ts) :
                    /\ ts[i].word \in Verbs \cup {"eaten"}
                    /\ IsWhole(Tok(ts, i + 1))
                    /\ Tok(ts, i + 2).word \in CalorieWords}
    IN  IF hits = {} THEN NoIntent
        ELSE ParsedIntent("add_calories",
                 WithParam(NoParams, "calories", IntOf(ts[Least(hits) + 1])))

\* rule 2: <verb> <food> <digits> calories, the food lazy
CaloriesFood(ts) ==
    LET Ends(i) == {j \in i + 2..Len(ts) :
                       /\ IsWhole(ts[j])
                       /\ Tok(ts, j + 1).word \in CalorieWords}
        hits == {i \in 1..Len(ts) : ts[i].word \in Verbs /\ Ends(i) # {}}
    IN  IF hits = {} THEN NoIntent
        ELSE LET i == Least(hits)
                 j == Least(Ends(i))
             IN  ParsedIntent("add_calories",
                     [NoParams EXCEPT !["calories"] = IntOf(ts[j]),
                                      !["food"] = SubSeq(ts, i + 1, j - 1)])

\* rule 3: vegetables [,] <digits> [servings]
Vegetables(ts) ==
    LET NumberAt(i) == IF Tok(ts, i + 1) = Comma THEN i + 2 ELSE i + 1
        hits == {i \in 1..Len(ts) :
                    /\ ts[i].word \in {"vegetable", "vegetables"}
                    /\ IsDigits(Tok(ts, NumberAt(i)))}
    IN  IF hits = {} THEN NoIntent
        ELSE ParsedIntent("log_vegetables",
                 WithParam(NoParams, "servings", IntOf(ts[NumberAt(Least(hits))])))

\* g|grams?|oz|ounces?|cups?|pieces?|servings?|tbsp|tablespoons?|tsp|teaspoons?
\* The alternation is tried in order at the start of the word after the
\* quantity and nothing requires the word to end where the unit ends, so
\* "g" is taken off the front of "grams".
UnitWords ==
    {"g", "oz", "ounce", "ounces", "cup", "cups", "piece", "pieces", "serving",
     "servings", "tbsp", "tablespoon", "tablespoons", "tsp", "teaspoon", "teaspoons"}

UnitPrefix(w) ==
    CASE w \in UnitWords -> w
      [] w \in {"gram", "grams", "green"} -> "g"
      [] OTHER -> ""

\* what of the word is left for the food group
UnitRest(w) ==
    CASE w = "gram" -> <<Word("ram")>>
      [] w = "grams" -> <<Word("rams")>>
      [] w = "green" -> <<Word("reen")>>
      [] OTHER -> <<>>

\* the unit without its optional plural s, "" when it has none to give back
Singular(w) ==
    CASE w = "ounces" -> "ounce" [] w = "cups" -> "cup" [] w = "pieces" -> "piece"
      [] w = "servings" -> "serving" [] w = "tablespoons" -> "tablespoon"
      [] w = "teaspoons" -> "teaspoon" [] OTHER -> ""

\* (?:of\s+)?(.+?)(?:\s+to\s+calories)?$ on the tokens rest
FoodOf(rest) ==
    LET named == IF Len(rest) >= 2 /\ rest[1].word = "of" THEN Tail(rest) ELSE rest
        n == Len(named)
    IN  IF n >= 3 /\ named[n - 1].word = "to" /\ named[n].word = "calories"
        THEN SubSeq(named, 1, n - 2)
        ELSE named

\* groups 1 to 3 of rule 4 when its verb is at i; the food group needs a
\* character, so a unit, a plural s or the last digit of a whole quantity
\* is given back to it when nothing else follows
FoodGroups(ts, i) ==
    LET q == ts[i + 1]
        w == Tok(ts, i + 2).word
        u == UnitPrefix(w)
        after == UnitRest(w) \o SubSeq(ts, i + 3, Len(ts))
    IN  IF Len(ts) = i + 1
        THEN [food |-> <<Digits((IntOf(q) % 10) * NumScale)>>,
              quantity |-> (IntOf(q) \div 10) * NumScale, unit |-> ""]
        ELSE IF u # "" /\ after # <<>>
        THEN [food |-> FoodOf(after), quantity |-> q.num, unit |-> u]
        ELSE IF u # "" /\ Singular(u) # ""
        THEN [food |-> <<Word("s")>>, quantity |-> q.num, unit |-> Singular(u)]
        ELSE [food |-> FoodOf(SubSeq(ts, i + 2, Len(ts))), quantity |-> q.num, unit |-> ""]

\* rule 4: <verb> <number> [unit] [of] <food> [to calories]
FoodLookup(ts) ==
    LET hits == {i \in 1..Len(ts) :
                    /\ ts[i].word \in Verbs
                    /\ IsDigits(Tok(ts, i + 1))
                    /\ Len(ts) = i + 1 => IsWhole(ts[i + 1]) /\ ts[i + 1].num >= 10 * NumScale}
    IN  IF hits = {} THEN NoIntent
        ELSE LET g == FoodGroups(ts, Least(hits))
             IN  ParsedIntent("add_food",
                     [NoParams EXCEPT !["quantity"] = g.quantity,
                                      !["unit"] = IF g.unit = "" THEN "serving" ELSE g.unit,
                                      !["food"] = g.food])

\* kg|lbs?|pounds?|kilos?, tried in order at the start of the word after the
\* number: "kilo" is taken off the front of "kilograms"
WeightUnitAt(w) ==
    CASE w \in PoundWords \cup KiloWords -> w
      [] w \in {"kilogram", "kilograms"} -> "kilo"
      [] OTHER -> ""

\* the extractor of the weight rules on the number at j; a spoken weight has
\* one decimal
WeightAt(ts, j) == WeightRule(ts[j].num \div 10, WeightUnitAt(Tok(ts, j + 1).word))

\* rule 5: [my] weight [is|was|today] <number> [unit]
WeightIs(ts) ==
    LET NumberAt(i) == SkipWord(ts, i + 1, {"is", "was", "today"})
        hits == {i \in 1..Len(ts) :
                    ts[i].word = "weight" /\ IsDigits(Tok(ts, NumberAt(i)))}
    IN  IF hits = {} THEN NoIntent ELSE WeightAt(ts, NumberAt(Least(hits)))

\* rule 6: [i] weigh[ed] <number> [unit]
Weigh(ts) ==
    LET hits == {i \in 1..Len(ts) :
                    ts[i].word \in {"weigh", "weighed"} /\ IsDigits(Tok(ts, i + 1))}
    IN  IF hits = {} THEN NoIntent ELSE WeightAt(ts, Least(hits) + 1)

Hours(h) == ParsedIntent("log_sleep", WithParam(NoParams, "hours", h))

\* rules 7 to 9: [i] slept <digits> and <fraction words> [hours]
SleptAnd(ts, fractions, part) ==
    LET hits == {i \in 1..Len(ts) :
                    /\ ts[i].word = "slept"
                    /\ IsWhole(Tok(ts, i + 1))
                    /\ \E f \in fractions : StartsWith(ts, i + 2, <<"and">> \o f)}
    IN  IF hits = {} THEN NoIntent ELSE Hours(ts[Least(hits) + 1].num + part)

\* rule 10: [i] slept <number> [hours]
Slept(ts) ==
    LET hits == {i \in 1..Len(ts) : ts[i].word = "slept" /\ IsDigits(Tok(ts, i + 1))}
    IN  IF hits = {} THEN NoIntent ELSE Hours(ts[Least(hits) + 1].num)

\* where "sleep" has to be after [hours] [of]
SleepAt(ts, i) == SkipWord(ts, SkipWord(ts, i, {"hour", "hours"}), {"of"})

\* rule 11: [got] <digits> and a half [hours] [of] sleep
HalfSleep(ts) ==
    LET hits == {i \in 1..Len(ts) :
                    /\ IsDigits(ts[i])
                    /\ StartsWith(ts, i + 1, <<"and", "a", "half">>)
                    /\ Tok(ts, SleepAt(ts, i + 4)).word = "sleep"}
    IN  IF hits = {} THEN NoIntent
        ELSE Hours(TailInt(ts[Least(hits)]) * NumScale + 50)

\* rule 12: [got] <number> [hours] [of] sleep
Sleep(ts) ==
    LET hits == {i \in 1..Len(ts) :
                    IsDigits(ts[i]) /\ Tok(ts, SleepAt(ts, i + 1)).word = "sleep"}
    IN  IF hits = {} THEN NoIntent ELSE Hours(ts[Least(hits)].num)

\* a clock time written with a colon, "7:30"
Clock(h, m) == [word |-> ":", num |-> h * 100 + m]
IsClock(t) == t.word = ":"

\* where the time has to be after woke [up] [at]
WakeAt(ts, i) == SkipWord(ts, SkipWord(ts, i + 1, {"up"}), {"at"})

\* (am|pm)? at position i
AmPmAt(ts, i) == IF Tok(ts, i).word \in {"am", "pm"} THEN ts[i].word ELSE ""

\* the extractor of the wake rules: 12 is added to an hour before "pm"
\* unless the hour is 12
Wake(h, m, ampm) ==
    ParsedIntent("log_wake",
        [NoParams EXCEPT !["hour"] = h + (IF ampm = "pm" /\ h # 12 THEN 12 ELSE 0),
                         !["minute"] = m])

\* rule 13: [i] woke [up] [at] <1-2 digits> <2 digits> [am|pm]
WakeDigits(ts) ==
    LET hits == {i \in 1..Len(ts) :
                    /\ ts[i].word = "woke"
                    /\ IsWhole(Tok(ts, WakeAt(ts, i)))
                    /\ IntOf(ts[WakeAt(ts, i)]) < 100
                    /\ IsWhole(Tok(ts, WakeAt(ts, i) + 1))
                    /\ IntOf(ts[WakeAt(ts, i) + 1]) >= 10}
    IN  IF hits = {} THEN NoIntent
        ELSE LET j == WakeAt(ts, Least(hits))
                 mm == IntOf(ts[j + 1])
             IN  Wake(IntOf(ts[j]), LeadingDigits(mm),
                      IF mm < 100 THEN AmPmAt(ts, j + 2) ELSE "")

\* rule 14: [i] woke [up] [at] <1-2 digits>[:<2 digits>] [am|pm]
WakeClock(ts) ==
    LET hits == {i \in 1..Len(ts) :
                    /\ ts[i].word = "woke"
                    /\ IsDigits(Tok(ts, WakeAt(ts, i))) \/ IsClock(Tok(ts, WakeAt(ts, i)))}
    IN  IF hits = {} THEN NoIntent
        ELSE LET j == WakeAt(ts, Least(hits))
                 t == ts[j]
             IN  IF IsClock(t)
                 THEN Wake(t.num \div 100, t.num % 100, AmPmAt(ts, j + 1))
                 ELSE Wake(LeadingDigits(IntOf(t)), 0,
                           IF IsWhole(t) /\ IntOf(t) < 100 THEN AmPmAt(ts, j + 1) ELSE "")

Duration(n) == ParsedIntent("log_workout", WithParam(NoParams, "duration_minutes", n))

\* rule 15: [i] worked out|exercised|did [a] workout [for] <digits> [minutes]
WorkedOut(ts) ==
    LET After(i) ==
            IF StartsWith(ts, i, <<"worked", "out">>) THEN i + 2
            ELSE IF ts[i].word = "exercised" THEN i + 1
            ELSE IF StartsWith(ts, i, <<"did", "a", "workout">>) THEN i + 3
            ELSE IF StartsWith(ts, i, <<"did", "workout">>) THEN i + 2
            ELSE 0
        NumberAt(i) == SkipWord(ts, After(i), {"for"})
        hits == {i \in 1..Len(ts) : After(i) # 0 /\ IsDigits(Tok(ts, NumberAt(i)))}
    IN  IF hits = {} THEN NoIntent ELSE Duration(IntOf(ts[NumberAt(Least(hits))]))

\* rule 16: <digits> minute|min workout|exercise
MinuteWorkout(ts) ==
    LET hits == {i \in 1..Len(ts) :
                    /\ IsDigits(ts[i])
                    /\ Tok(ts, i + 1).word \in {"minute", "min"}
                    /\ Tok(ts, i + 2).word \in {"workout", "exercise"}}
    IN  IF hits = {} THEN NoIntent ELSE Duration(TailInt(ts[Least(hits)]))

\* PATTERNS: the rules in the order of the list
PATTERNS == <<"calories", "calories food", "vegetables", "food lookup", "weight is",
              "weigh", "slept half", "slept quarter", "slept three quarters", "slept",
              "half sleep", "sleep", "wake digits", "wake clock", "worked out",
              "minute workout">>

Rule(name, ts) ==
    CASE name = "calories" -> CaloriesDirect(ts)
      [] name = "calories food" -> CaloriesFood(ts)
      [] name = "vegetables" -> Vegetables(ts)
      [] name = "food lookup" -> FoodLookup(ts)
      [] name = "weight is" -> WeightIs(ts)
      [] name = "weigh" -> Weigh(ts)
      [] name = "slept half" -> SleptAnd(ts, {<<"a", "half">>}, 50)
      [] name = "slept quarter" -> SleptAnd(ts, {<<"a", "quarter">>}, 25)
      [] name = "slept three quarters" ->
             SleptAnd(ts, {<<"three", "quarter">>, <<"three", "quarters">>}, 75)
      [] name = "slept" -> Slept(ts)
      [] name = "half sleep" -> HalfSleep(ts)
      [] name = "sleep" -> Sleep(ts)
      [] name = "wake digits" -> WakeDigits(ts)
      [] name = "wake clock" -> WakeClock(ts)
      [] name = "worked out" -> WorkedOut(ts)
      [] name = "minute workout" -> MinuteWorkout(ts)

\* the rules of the list whose pattern matches the text
Matching(rules, ts) == {k \in 1..Len(rules) : Rule(rules[k], ts).intent # "none"}

\* the for loop of parse_with_regex returns at the first rule that matches:
\* its position in the list, 0 when the loop runs to the end
LastMatch(rules, ts) ==
    IF Matching(rules, ts) = {} THEN 0
    ELSE CHOOSE k \in Matching(rules, ts) : \A j \in Matching(rules, ts) : j <= k

FirstMatch(rules, ts) ==
    IF Matching(rules, ts) = {} THEN 0 ELSE Least(Matching(rules, ts))

\* what a stage of the built-in grammar gives: the ParsedIntent and the
\* rule it came from
Ruled(name, r) == [result |-> r, rule |-> name]

WalkRules(rules, ts) ==
    LET k == FirstMatch(rules, ts)
    IN  IF k = 0 THEN Ruled("none", NoIntent) ELSE Ruled(rules[k], Rule(rules[k], ts))

(***************************************************************************)
(* voice/intent.py: wake times spoken in words                              *)
(***************************************************************************)
HourWords == {"one", "two", "three", "four", "five", "six", "seven", "eight", "nine",
              "ten", "eleven", "twelve"}

\* the one-word alternatives of the minute group; each stands in the
\* alternation before its two-word form ("twenty" before "twenty\s+\w+")
MinuteWords == {"ten", "eleven", "twelve", "thirteen", "fourteen", "fifteen", "sixteen",
                "seventeen", "eighteen", "nineteen", "twenty", "thirty", "forty", "fifty"}

\* TIME_MINUTES[phrase], None when the phrase is not a key
TIME_MINUTES(key) ==
    LET tens == CASE key[1].word = "twenty" -> 20 [] key[1].word = "thirty" -> 30
                  [] key[1].word = "forty" -> 40 [] key[1].word = "fifty" -> 50
                  [] OTHER -> None
        OneToNine(w) == w \in DOMAIN WORD_NUMBERS /\ WORD_NUMBERS[w] \in NumScale..9 * NumScale
    IN  IF Len(key) = 1
        THEN IF key[1].word \in MinuteWords
             THEN WORD_NUMBERS[key[1].word] \div NumScale ELSE None
        ELSE IF key[1].word = "oh" /\ OneToNine(key[2].word)
             THEN WORD_NUMBERS[key[2].word] \div NumScale
        ELSE IF key[1].word \in {"twenty", "thirty"} /\ OneToNine(key[2].word)
             THEN tens + WORD_NUMBERS[key[2].word] \div NumScale
        ELSE IF key[1].word \in {"forty", "fifty"} /\ key[2].word = "five"
             THEN tens + 5
        ELSE None

\* a token that starts with a word character
IsWordLike(t) == t.word \notin {"", ","}

\* the \w+ a token starts with
WordChars(t) ==
    IF IsClock(t) THEN Digits((t.num \div 100) * NumScale)
    ELSE IF IsDigits(t) THEN Digits(IntOf(t) * NumScale)
    ELSE t

\* group 2 of time_pattern after the hour word at i: the alternation takes
\* its first alternative that matches, and the rest of the pattern, all of
\* it optional, never makes it try another
MinuteGroup(ts, i) ==
    IF Tok(ts, i + 1).word = "oh" /\ IsWordLike(Tok(ts, i + 2))
    THEN <<ts[i + 1], WordChars(ts[i + 2])>>
    ELSE IF Tok(ts, i + 1).word \in MinuteWords THEN SubSeq(ts, i + 1, i + 1)
    ELSE <<>>

\* group 3 at position j, spaces removed: am|pm|a\s*m|p\s*m
AmPmGroup(ts, j) ==
    IF Tok(ts, j).word \in {"am", "pm"} THEN ts[j].word
    ELSE IF Tok(ts, j).word = "a" /\ Tok(ts, j + 1).word = "m" THEN "am"
    ELSE IF Tok(ts, j).word = "p" /\ Tok(ts, j + 1).word = "m" THEN "pm"
    ELSE ""

\* the (None, None, None) of parse_time_words
NoTime == [minute |-> None, hour |-> None, ampm |-> ""]

\* parse_time_words(text): hour None when the text has no hour word that
\* another word follows
parse_time_words(ts) ==
    LET hits == {i \in 1..Len(ts) : ts[i].word \in HourWords /\ IsWordLike(Tok(ts, i + 1))}
    IN  IF hits = {} THEN NoTime
        ELSE LET i == Least(hits)
                 minute_word == MinuteGroup(ts, i)
                 said == IF minute_word = <<>> THEN None ELSE words_to_number(minute_word)
             IN  [minute |-> IF minute_word = <<>> THEN 0
                             ELSE IF TIME_MINUTES(minute_word) # None
                                  THEN TIME_MINUTES(minute_word)
                             ELSE IF said = None THEN 0 ELSE said \div NumScale,
                  hour |-> WORD_NUMBERS[ts[i].word] \div NumScale,
                  ampm |-> IF /\ minute_word # <<>>
                              /\ WordChars(ts[i + Len(minute_word)]) # ts[i + Len(minute_word)]
                           THEN ""
                           ELSE AmPmGroup(ts, i + 1 + Len(minute_word))]

\* parse_wake_time_words(text)
parse_wake_time_words(ts) ==
    LET wokes == {i \in 1..Len(ts) - 1 : ts[i].word = "woke"}
        time_part == SubSeq(ts, WakeAt(ts, Least(wokes)), Len(ts))
        time == parse_time_words(time_part)
    IN  IF wokes = {} \/ time.hour = None THEN NoIntent
        ELSE ParsedIntent("log_wake",
                 [NoParams EXCEPT
                     !["hour"] = IF time.ampm = "pm" /\ time.hour # 12 THEN time.hour + 12
                                 ELSE IF time.ampm = "am" /\ time.hour = 12 THEN 0
                                 ELSE time.hour,
                     !["minute"] = time.minute])

\* re.search(r'woke', text.lower())
HasWoke(ts) == \E i \in 1..Len(ts) : ts[i].word = "woke"

\* parse_with_regex(text) with the rule list rules
RegexOver(rules, ts) ==
    IF HasWoke(ts) /\ parse_wake_time_words(ts).intent # "none"
    THEN Ruled("parse_wake_time_words", parse_wake_time_words(ts))
    ELSE WalkRules(rules, preprocess_text(ts))


(***************************************************************************)
(* Inputs of the parser                                                     *)
(***************************************************************************)
MaxServings == 12   \* largest number of servings spoken

N(n) == Digits(n * NumScale)

\* "vegetables, N servings" and "vegetables N servings"
VegetablesComma(n) == <<Word("vegetables"), Comma, N(n), Word("servings")>>
VegetablesPlain(n) == <<Word("vegetables"), N(n), Word("servings")>>

\* "woke up at <words>"
WokeUpAt(ss) == Words(<<"woke", "up", "at">> \o ss)

VegetableUtterances ==
    {VegetablesComma(n) : n \in 0..MaxServings} \cup {VegetablesPlain(n) : n \in 0..MaxServings}
    \cup {Words(<<"vegetables", ",", "three", "servings">>),
          <<Word("vegetables"), Comma, Word("-"), N(3), Word("servings")>>,
          <<Word("had"), N(2), Word("vegetables"), Comma, N(3), Word("servings")>>}

FoodUtterances ==
    {<<Word("add"), N(2)>> \o Words(<<"cups", "of", "rice">>),
     <<Word("had"), N(3)>> \o Words(<<"ounces", "of", "chicken">>),
     <<Word("add"), N(2)>> \o Words(<<"tablespoons", "of", "butter">>),
     <<Word("add"), N(1)>> \o Words(<<"teaspoons", "of", "sugar">>),
     <<Word("add"), N(100)>> \o Words(<<"g", "of", "rice">>),
     <<Word("add"), N(2)>> \o Words(<<"eggs">>),
     <<Word("add"), N(500)>> \o Words(<<"calories">>),
     Words(<<"add", "five", "hundred", "calories">>),
     Words(<<"had", "eggs">>) \o <<N(140)>> \o Words(<<"calories">>),
     Words(<<"had", "medication">>) \o <<N(2)>> \o Words(<<"calories">>)}

\* the unit words that the food-quantity rule lists, with and without the
\* optional s
ListedUnits ==
    {"g", "gram", "grams", "oz", "ounce", "ounces", "cup", "cups", "piece", "pieces",
     "serving", "servings", "tbsp", "tablespoon", "tablespoons", "tsp", "teaspoon",
     "teaspoons"}

FoodPhrases == {<<"rice">>, <<"fried", "eggs">>, <<"green", "apples">>}
FoodQuantities == {2 * NumScale, 150}

\* "add N <unit> of <food>", and "add N <food>" for the unit <<>>
AddFood(q, units, named) ==
    <<Word("add"), Digits(q)>>
        \o Words(units \o (IF units = <<>> THEN <<>> ELSE <<"of">>) \o named)

MeasuredFoodUtterances ==
    {AddFood(q, units, named) :
        q \in FoodQuantities, units \in {<<w>> : w \in ListedUnits} \cup {<<>>},
        named \in FoodPhrases}

WeightUtterances ==
    {Words(<<"my", "weight", "is">>) \o <<N(180)>> \o Words(<<"pounds">>),
     Words(<<"i", "weigh">>) \o <<Digits(1505 * 10)>> \o Words(<<"lbs">>),
     Words(<<"i", "weigh">>) \o <<N(82)>> \o Words(<<"kilos">>),
     Words(<<"i", "weigh">>) \o <<N(82)>> \o Words(<<"kilograms">>),
     Words(<<"my", "weight", "is">>) \o <<N(82)>>}

SleepUtterances ==
    {<<Word("slept"), N(8), Word("hours")>>,
     Words(<<"slept", "seven", "and", "a", "half", "hours">>),
     <<Word("had"), N(8)>> \o Words(<<"hours", "of", "sleep">>),
     <<Word("got"), N(7)>> \o Words(<<"hours", "of", "sleep">>)}

\* the minute phrases spoken after the hour, <<>> for none
MinutePhrases ==
    {<<>>, <<"thirty">>, <<"fifteen">>, <<"oh", "five">>, <<"twenty", "five">>,
     <<"forty", "five">>}

WakeWordUtterances ==
    {WokeUpAt(<<h>> \o mm \o <<ap>>) : h \in HourWords, mm \in MinutePhrases, ap \in {"am", "pm"}}
    \cup {WokeUpAt(ss) : ss \in {<<"seven", "p", "m">>, <<"seven">>, <<"seven", "thirty">>}}
    \cup {WokeUpAt(<<"seven", "thirty", "am", "and", "had">>) \o <<N(500), Word("calories")>>}

\* "woke up at <hour> [<two-digit minute>] am|pm" in digits, minute 0 for
\* none
WokeUpAtDigits(hh, mm, ap) ==
    WokeUpAt(<<>>) \o <<N(hh)>> \o (IF mm = 0 THEN <<>> ELSE <<N(mm)>>) \o <<Word(ap)>>

\* the minutes spoken in digits, and the same minutes in words
DigitMinutes == {0, 15, 30}
MinuteWordsOf(mm) == CASE mm = 0 -> <<>> [] mm = 15 -> <<"fifteen">> [] mm = 30 -> <<"thirty">>

WakeDigitUtterances ==
    {WokeUpAt(<<>>) \o <<N(7), N(30), Word("am")>>,
     WokeUpAt(<<>>) \o <<Clock(7, 30), Word("pm")>>,
     WokeUpAt(<<>>) \o <<N(7), Word("pm")>>}
    \cup {WokeUpAtDigits(hh, mm, ap) : hh \in 1..12, mm \in DigitMinutes, ap \in {"am", "pm"}}
    \cup {WokeUpAtDigits(13, 0, "pm"), WokeUpAtDigits(25, 0, "am"),
          WokeUpAtDigits(7, 75, "am"), WokeUpAt(<<>>) \o <<Clock(7, 75)>>}

WorkoutUtterances ==
    {Words(<<"worked", "out", "for">>) \o <<N(30), Word("minutes")>>,
     <<N(30)>> \o Words(<<"minute", "workout">>),
     <<Word("logged"), N(30)>> \o Words(<<"minute", "workout">>)}

ParserUtterances ==
    Utterances \cup VegetableUtterances \cup FoodUtterances \cup MeasuredFoodUtterances
    \cup WeightUtterances
    \cup SleepUtterances \cup WakeWordUtterances \cup WakeDigitUtterances
    \cup WorkoutUtterances \cup {<<>>}

\* the call asked the generative model
Asked(ss) == \E k \in 1..Len(ss) : ss[k] = "ollama"

\* parse_with_regex(text), tabulated over the texts
RegexResults == [u \in ParserUtterances |-> RegexOver(PATTERNS, u)]

parse_with_regex(ts) == RegexResults[ts].result

(***************************************************************************)
(* voice/intent.py: parse_with_ollama and parse_intent                      *)
(***************************************************************************)
VALID_INTENTS ==
    {"add_calories", "add_food", "log_weight", "log_sleep", "log_wake", "log_vegetables",
     "log_workout", "log_custom_metric"}

OLLAMA_ENABLED == FALSE

\* what the request to the generative model can meet.  text is what the
\* "response" field holds: "" (field missing or empty), "prose" (no braces),
\* "broken" (braces around something json.loads rejects) or "json"; named
\* is the "intent" of that JSON object, MissingName when it has none and
\* "[]" when it is not a string.
ModelReply(kind, code, isJson, body, nm, ps) ==
    [net |-> kind, status |-> code, json |-> isJson, text |-> body, named |-> nm, given |-> ps]

NoModelReply == ModelReply("none", 0, FALSE, "", MissingName, NoParams)

ModelNames == VALID_INTENTS \cup {"set_alarm", "Log_Weight", "unknown", "[]", MissingName}

ModelReplies ==
    {ModelReply("reply", 200, TRUE, "json", nm, ps) :
        nm \in ModelNames, ps \in {NoParams, WithParam(NoParams, "calories", 500)}}
    \cup {ModelReply("reply", 200, TRUE, body, MissingName, NoParams) :
             body \in {"", "prose", "broken"}}
    \cup {ModelReply("reply", 200, FALSE, "", MissingName, NoParams),
          ModelReply("reply", 500, TRUE, "json", "add_calories", NoParams),
          ModelReply("Timeout", 0, FALSE, "", MissingName, NoParams),
          ModelReply("ConnectionError", 0, FALSE, "", MissingName, NoParams)}

\* parse_with_ollama(text) when the request meets reply
parse_with_ollama_unchecked(ts, reply) ==
    IF reply.net # "reply" \/ reply.status # 200 \/ ~reply.json \/ reply.text # "json"
    THEN NoIntent
    ELSE ParsedIntent(IF reply.named = MissingName THEN "unknown" ELSE reply.named,
                      reply.given)

parse_with_ollama(ts, reply) ==
    IF reply.net # "reply" \/ reply.status # 200 \/ ~reply.json \/ reply.text # "json"
    THEN NoIntent
    ELSE LET intent == IF reply.named = MissingName THEN "unknown" ELSE reply.named
         IN  IF intent \in VALID_INTENTS THEN ParsedIntent(intent, reply.given)
             ELSE NoIntent

\* what a parser call gives: the ParsedIntent, its confidence in tenths and
\* the stages the call went through
Parsed(r, c, ss) ==
    [stages |-> ss, confidence |-> IF r.intent = "none" THEN 0 ELSE c, result |-> r]

\* parse_intent(text) with the pattern cache pats; reply is what the
\* generative model answers if it is asked
parse_intent_rules_first(ts, pats, reply) ==
    IF ts = <<>> THEN Parsed(NoIntent, 0, <<>>)
    ELSE IF parse_with_regex(ts).intent # "none"
    THEN Parsed(parse_with_regex(ts), 10, <<"regex">>)
    ELSE Parsed(MatchPatterns(pats, 1, ts), 10, <<"regex", "custom">>)

parse_intent(ts, pats, reply) ==
    IF ts = <<>> THEN Parsed(NoIntent, 0, <<>>)
    ELSE IF MatchPatterns(pats, 1, ts).intent # "none"
    THEN Parsed(MatchPatterns(pats, 1, ts), 10, <<"custom">>)
    ELSE IF parse_with_regex(ts).intent # "none"
    THEN Parsed(parse_with_regex(ts), 10, <<"custom", "regex">>)
    ELSE IF OLLAMA_ENABLED
    THEN Parsed(parse_with_ollama(ts, reply), 7, <<"custom", "regex", "ollama">>)
    ELSE Parsed(NoIntent, 0, <<"custom", "regex">>)

(***************************************************************************)
(* The parser calls                                                         *)
(***************************************************************************)
\* the texts given to parse_intent: nothing, a keyword with a number in
\* digits and in words, a keyword inside a sentence of the built-in grammar,
\* sentences of the built-in grammar and one of no grammar
IntentUtterances ==
    Utterances
    \cup {<<>>, Words(<<"had", "medication">>) \o <<N(2)>> \o Words(<<"calories">>),
          VegetablesComma(3), <<Word("add"), N(2)>> \o Words(<<"cups", "of", "rice">>),
          WokeUpAt(<<"seven", "thirty", "am">>), <<Word("slept"), N(8), Word("hours")>>}

\* parse_with_ollama puts the text in its prompt and nowhere else
PromptUtterances == {Words(<<"hello">>), Words(<<"medication", "two">>)}

InitParser ==
    /\ parseOp = "none"
    /\ utterance = <<>>
    /\ stages = <<>>
    /\ modelReply = NoModelReply
    /\ ruleUsed = "none"
    /\ parseResult = NoIntent
    /\ confidence = 0
    /\ wordsNumber = None
    /\ timeWords = NoTime

\* parse_intent(text); the fetch of its custom-metric check, if that issues
\* one, meets reply.  The history of the pattern cache records the direct
\* calls of parse_custom_metrics only.
ParseIntent ==
    \E text \in IntentUtterances :
    \E reply \in (IF _patterns_loaded \/ text = <<>> THEN {NoFetch} ELSE FetchOutcomes) :
    \E answer \in (IF OLLAMA_ENABLED THEN ModelReplies ELSE {NoModelReply}) :
    \E after \in {IF _patterns_loaded \/ text = <<>>
                  THEN [patterns |-> _custom_metric_patterns, loaded |-> _patterns_loaded]
                  ELSE load_custom_metric_patterns(reply, _custom_metric_patterns,
                                                   _patterns_loaded)} :
    \E out \in {parse_intent(text, after.patterns, answer)} :
            /\ parseOp' = "parse_intent"
            /\ utterance' = text
            /\ stages' = out.stages
            /\ modelReply' = IF Asked(out.stages) THEN answer ELSE NoModelReply
            /\ ruleUsed' = IF out.stages = <<"custom", "regex">> THEN RegexResults[text].rule
                           ELSE "none"
            /\ parseResult' = out.result
            /\ confidence' = out.confidence
            /\ UNCHANGED <<wordsNumber, timeWords>>
            /\ _custom_metric_patterns' = after.patterns
            /\ _patterns_loaded' = after.loaded
            /\ UNCHANGED <<patOp, patFetches, patReply, okBefore, loaderRanBefore, parsed>>
            /\ UNCHANGED <<dispatchVars, wakeVars, recordVars, ttsVars, sessionVars>>

\* parse_with_regex(text)
ParseWithRegex ==
    \E text \in ParserUtterances :
        /\ parseOp' = "parse_with_regex"
        /\ utterance' = text
        /\ stages' = <<"regex">>
        /\ modelReply' = NoModelReply
        /\ ruleUsed' = RegexResults[text].rule
        /\ parseResult' = parse_with_regex(text)
        /\ confidence' = Parsed(parse_with_regex(text), 10, <<>>).confidence
        /\ UNCHANGED <<wordsNumber, timeWords>>
        /\ UNCHANGED <<dispatchVars, wakeVars, patternVars, recordVars, ttsVars, sessionVars>>

\* parse_with_ollama(text)
ParseWithOllama ==
    \E text \in PromptUtterances : \E answer \in ModelReplies :
        /\ parseOp' = "parse_with_ollama"
        /\ utterance' = text
        /\ stages' = <<"ollama">>
        /\ modelReply' = answer
        /\ ruleUsed' = "none"
        /\ parseResult' = parse_with_ollama(text, answer)
        /\ confidence' = Parsed(parse_with_ollama(text, answer), 7, <<>>).confidence
        /\ UNCHANGED <<wordsNumber, timeWords>>
        /\ UNCHANGED <<dispatchVars, wakeVars, patternVars, recordVars, ttsVars, sessionVars>>

\* the loaded patterns that match the text, by position in load order
HitPatterns(text) ==
    {k \in 1..Len(_custom_metric_patterns) : PatternHits(_custom_metric_patterns[k], text) # {}}

\* the returned intent is the custom metric of the loaded pattern k with the
\* number the pattern finds in the text
IsCustomMetric(k, text) ==
    /\ parseResult.intent = "log_custom_metric"
    /\ parseResult.params["metric_id"] = _custom_metric_patterns[k].id
    /\ parseResult.params["metric_name"] = _custom_metric_patterns[k].name
    /\ parseResult.params["value"] = PatternValue(_custom_metric_patterns[k], text)

\* C15: for every utterance that matches at least one loaded custom-metric
\* pattern, parse_intent returns log_custom_metric with the metric_id,
\* metric_name and value of the first matching pattern in load order, and
\* no built-in rule and no generative fallback is evaluated.
C15_CustomMetricShortCircuits ==
    (parseOp = "parse_intent" /\ HitPatterns(utterance) # {})
        => /\ IsCustomMetric(Least(HitPatterns(utterance)), utterance)
           /\ stages = <<"custom">>
           /\ ruleUsed = "none" /\ modelReply = NoModelReply

\* two loaded patterns match a sentence that the built-in grammar would
\* parse as well, and the first pattern gave the result
C15_Witness ==
    /\ parseOp = "parse_intent"
    /\ Cardinality(HitPatterns(utterance)) = 2
    /\ _custom_metric_patterns[1].name # _custom_metric_patterns[2].name
    /\ parse_with_regex(utterance).intent = "add_calories"
    /\ IsCustomMetric(1, utterance)

\* C16: custom-metric matching is done on the normalized text: an utterance
\* of a loaded metric's keyword followed by a spoken number word
\* ("medication two") yields log_custom_metric with that number, exactly as
\* the keyword followed by digits does.
C16_MatchesNormalizedText ==
    (parseOp = "parse_intent" /\ HitPatterns(preprocess_text(utterance)) # {})
        => IsCustomMetric(Least(HitPatterns(preprocess_text(utterance))),
                          preprocess_text(utterance))

\* the generative model answered with a JSON object that names an intent
Named(reply) ==
    reply.net = "reply" /\ reply.status = 200 /\ reply.json /\ reply.text = "json"

\* C17: every ParsedIntent the parser returns, from the custom-metric check,
\* a built-in rule or the generative fallback, has an intent name for which
\* the dispatcher has a handler; a generative-model reply that names any
\* other intent yields no intent.
C17_ClosedIntentSet ==
    /\ parseResult.intent # "none" => parseResult.intent \in COMMAND_HANDLERS
    /\ \A u \in ParserUtterances :
           parse_with_regex(u).intent \in COMMAND_HANDLERS \cup {"none"}
    /\ (parseOp = "parse_with_ollama" /\ modelReply.named \notin COMMAND_HANDLERS)
           => parseResult = NoIntent

\* the generative model named an intent without a handler and the call
\* returned None
C17_Witness ==
    /\ parseOp = "parse_with_ollama"
    /\ Named(modelReply) /\ modelReply.named = "set_alarm"
    /\ parseResult = NoIntent

\* convert_to_grams(value, unit): the factors are in hundredths
convert_to_grams(value, unit) ==
    LET factor == CASE unit \in {"oz", "ounce", "ounces"} -> 2835
                    [] unit \in PoundWords -> 45360
                    [] unit \in KiloWords -> 100000
                    [] OTHER -> 100
    IN  (value * factor) \div 100

\* the first number in digits of a text and the word said after it
SpokenAt(text) == Least({i \in 1..Len(text) : IsDigits(text[i])})
SpokenNumber(text) == text[SpokenAt(text)].num
SpokenUnit(text) == Tok(text, SpokenAt(text) + 1).word

\* the unit words of the food rule that are not canonical
SpokenMeasures ==
    {"oz", "ounce", "ounces", "cup", "cups", "tbsp", "tablespoon", "tablespoons", "tsp",
     "teaspoon", "teaspoons"}

FirstRuleGave(text) ==
    LET matching == Matching(PATTERNS, preprocess_text(text))
    IN  IF matching = {} THEN ruleUsed = "none" /\ parseResult = NoIntent
        ELSE /\ ruleUsed = PATTERNS[Least(matching)]
             /\ parseResult = Rule(PATTERNS[Least(matching)], preprocess_text(text))

\* "vegetables, N servings" and "vegetables N servings" gave log_vegetables
\* with N servings and confidence 1.0
VegetablesGave ==
    \A n \in 0..MaxServings :
        (parseOp = "parse_with_regex" /\ utterance \in {VegetablesComma(n), VegetablesPlain(n)})
            => /\ parseResult.intent = "log_vegetables"
               /\ parseResult.params["servings"] = n
               /\ confidence = 10

\* C19: parse_with_regex walks the ordered rule list and returns the intent
\* and parameters of the first rule whose pattern matches the normalized
\* text; for every N, "vegetables, N servings" and "vegetables N servings"
\* resolve to log_vegetables with N servings and confidence 1.0, never to
\* add_food.
C19_FirstRuleWins ==
    /\ parseOp = "parse_with_regex" => FirstRuleGave(utterance)
    /\ VegetablesGave

\* C19 amended: a text with "woke" in it goes to parse_wake_time_words
\* first, and if that finds a time spoken in words its log_wake is the
\* result; otherwise the result is that of the first rule of the ordered
\* list whose pattern matches the normalized text.  The vegetables
\* sentences resolve to log_vegetables as stated.
C19_WakeWordsThenFirstRule ==
    /\ parseOp = "parse_with_regex"
           => IF HasWoke(utterance) /\ parse_wake_time_words(utterance).intent # "none"
              THEN /\ ruleUsed = "parse_wake_time_words"
                   /\ parseResult = parse_wake_time_words(utterance)
              ELSE FirstRuleGave(utterance)
    /\ VegetablesGave

\* "had 2 vegetables, 3 servings": the vegetables rule and the food rule
\* both match and the vegetables rule, the earlier one, gave the result
C19_Witness ==
    /\ parseOp = "parse_with_regex"
    /\ {3, 4} \subseteq Matching(PATTERNS, preprocess_text(utterance))
    /\ ruleUsed = "vegetables"
    /\ parseResult.intent = "log_vegetables" /\ parseResult.params["servings"] = 3

\* the hour of the day that an hour word with am or pm names
Hour24(h, ap) ==
    LET n == WORD_NUMBERS[h] \div NumScale
    IN  IF n = 12 THEN (IF ap = "am" THEN 0 ELSE 12)
        ELSE IF ap = "pm" THEN n + 12 ELSE n

\* the minutes that a minute phrase names: "oh five" 5, "twenty five" 25
RECURSIVE SpokenMinutes(_)
SpokenMinutes(mm) ==
    IF mm = <<>> THEN 0
    ELSE (IF Head(mm) = "oh" THEN 0 ELSE WORD_NUMBERS[Head(mm)] \div NumScale)
             + SpokenMinutes(Tail(mm))

\* C20: "woke up at <hour-word> [<minute-words>] am|pm" yields log_wake with
\* the 24-hour hour and the minute: "seven thirty am" gives {7, 30},
\* "twelve am" {0, 0}, "twelve pm" {12, 0}, every other pm hour h gives
\* h + 12 and every other am hour is unchanged.
C20_WakeWordsTo24Hour ==
    \A h \in HourWords : \A mm \in MinutePhrases : \A ap \in {"am", "pm"} :
        (parseOp = "parse_with_regex" /\ utterance = WokeUpAt(<<h>> \o mm \o <<ap>>))
            => /\ parseResult.intent = "log_wake"
               /\ parseResult.params["hour"] = Hour24(h, ap)
               /\ parseResult.params["minute"] = SpokenMinutes(mm)

\* the positions in the list of the sleep, weight, wake-time, workout and
\* vegetable rules
SpecificRules ==
    {k \in 1..Len(PATTERNS) : PATTERNS[k] \notin {"calories", "calories food", "food lookup"}}

\* the specific rules whose pattern matches the text as the rule walk sees it
SpecificMatches(text) == Matching(PATTERNS, preprocess_text(text)) \cap SpecificRules

\* C24: in the ordered rule list no general rule precedes a more specific
\* one: every utterance matched by a sleep, weight, wake-time, workout or
\* vegetable rule resolves to that rule's intent and never to the generic
\* food-quantity intent add_food, also when it begins with a logging verb
\* such as "had", "add" or "logged" followed by a number.
C24_SpecificBeforeGeneral ==
    (parseOp = "parse_with_regex" /\ SpecificMatches(utterance) # {})
        => /\ parseResult.intent # "add_food"
           /\ \E k \in SpecificMatches(utterance) :
                  parseResult.intent = Rule(PATTERNS[k], preprocess_text(utterance)).intent

\* the wake_time that cmd_log_wake posts for the parameters
WakeTimeSent(params) ==
    cmd_log_wake(params, <<Reply(200, TRUE, "", "", <<>>)>>).reqs[1].data.wake_time

\* hours, minutes and seconds of a time of the day
IsClockTime(hms) == hms[1] \in 0..23 /\ hms[2] \in 0..59 /\ hms[3] \in 0..59

\* C27: every log_wake intent the parser produces, by the word grammar or by
\* either digit rule, has 0 <= hour <= 23 and 0 <= minute <= 59, so the
\* wake_time the dispatcher sends is always a valid HH:MM:SS clock time.
C27_WakeTimeInRange ==
    (parseOp = "parse_with_regex" /\ parseResult.intent = "log_wake")
        => /\ parseResult.params["hour"] \in 0..23
           /\ parseResult.params["minute"] \in 0..59
           /\ IsClockTime(WakeTimeSent(parseResult.params))

\* the same time spoken in words: what parse_with_regex gives for it
InWords(h, mm, ap) == parse_with_regex(WokeUpAt(<<h>> \o MinuteWordsOf(mm) \o <<ap>>))

\* C30: the digit wake-time rules and the word wake-time grammar agree: for
\* every hour 1 to 12, minute and am/pm marker, the time transcribed as
\* digits ("woke up at 12 am", "woke up at 7 30 pm") yields the same
\* {hour, minute} that reaches the API as the same time spoken in words; in
\* particular 12 am gives hour 0 on both routes.
C30_DigitsAndWordsAgree ==
    \A h \in HourWords : \A mm \in DigitMinutes : \A ap \in {"am", "pm"} :
        (/\ parseOp = "parse_with_regex"
         /\ utterance = WokeUpAtDigits(WORD_NUMBERS[h] \div NumScale, mm, ap))
            => /\ parseResult.intent = "log_wake"
               /\ InWords(h, mm, ap).intent = "log_wake"
               /\ WakeTimeSent(parseResult.params) = WakeTimeSent(InWords(h, mm, ap).params)
               /\ (h = "twelve" /\ ap = "am") => WakeTimeSent(parseResult.params)[1] = 0

\* C29: for every unit word the food-quantity rule lists (g, gram, grams,
\* oz, ounce(s), cup(s), piece(s), serving(s), tbsp, tablespoon(s), tsp,
\* teaspoon(s)) and every food phrase, "add N <unit> of <food>" yields
\* add_food with quantity N, unit equal to the whole unit word and food
\* equal to the whole food phrase; with no unit word the unit is "serving"
\* and the food is the whole phrase after the number.
C29_WholeUnitWholeFood ==
    \A q \in FoodQuantities : \A named \in FoodPhrases :
        /\ \A w \in ListedUnits :
               (parseOp = "parse_with_regex" /\ utterance = AddFood(q, <<w>>, named))
                   => /\ parseResult.intent = "add_food"
                      /\ parseResult.params["quantity"] = q
                      /\ parseResult.params["unit"] = w
                      /\ parseResult.params["food"] = Words(named)
        /\ (parseOp = "parse_with_regex" /\ utterance = AddFood(q, <<>>, named))
               => /\ parseResult.intent = "add_food"
                  /\ parseResult.params["quantity"] = q
                  /\ parseResult.params["unit"] = "serving"
                  /\ parseResult.params["food"] = Words(named)

(***************************************************************************)
(* voice/intent.py: words_to_number and parse_time_words called on their    *)
(* own                                                                      *)
(***************************************************************************)
\* the words a cardinal phrase has before "thousand", before "hundred" and
\* below a hundred
ThousandsWords == {<<>>, <<"one">>, <<"two">>, <<"twelve">>, <<"twenty", "five">>,
                   <<"two", "hundred">>}
HundredsWords == {<<>>, <<"one">>, <<"five">>, <<"nine">>}
SmallWords == {<<>>, <<"five">>, <<"twelve">>, <<"eighty">>, <<"eighty", "five">>}

\* "<th> thousand <hd> hundred [and] <sm>", each part left out when empty
CardinalPhrase(th, hd, sm, joined) ==
    (IF th = <<>> THEN <<>> ELSE th \o <<"thousand">>)
        \o (IF hd = <<>> THEN <<>> ELSE hd \o <<"hundred">>)
        \o (IF joined /\ sm # <<>> /\ (th # <<>> \/ hd # <<>>) THEN <<"and">> ELSE <<>>)
        \o sm

\* the number a phrase below a thousand denotes
RECURSIVE Below1000(_)
Below1000(ws) ==
    IF ws = <<>> THEN 0
    ELSE IF Len(ws) >= 2 /\ ws[2] = "hundred"
         THEN (WORD_NUMBERS[ws[1]] \div NumScale) * 100 + Below1000(SubSeq(ws, 3, Len(ws)))
    ELSE (WORD_NUMBERS[Head(ws)] \div NumScale) + Below1000(Tail(ws))

\* the number the cardinal phrase denotes
Denoted(th, hd, sm) == Below1000(th) * 1000 + Below1000(hd) * 100 + Below1000(sm)

\* the phrases given to words_to_number: every unit word alone, and the
\* phrases with a thousands, a hundreds and a lower part
UnitPhrases == {<<w>> : w \in {v \in DOMAIN WORD_NUMBERS : WORD_NUMBERS[v] \in 0..9 * NumScale
                                                          /\ WORD_NUMBERS[v] % NumScale = 0}}

CardinalPhrases ==
    UnitPhrases \cup
    ({CardinalPhrase(th, hd, sm, joined) :
         th \in ThousandsWords, hd \in HundredsWords, sm \in SmallWords, joined \in BOOLEAN}
        \ {<<>>})

\* words_to_number(text)
WordsToNumber ==
    \E ws \in CardinalPhrases :
        /\ parseOp' = "words_to_number"
        /\ utterance' = Words(ws)
        /\ wordsNumber' = words_to_number(Words(ws))
        /\ timeWords' = NoTime
        /\ UNCHANGED <<stages, modelReply, ruleUsed, parseResult, confidence>>
        /\ UNCHANGED <<dispatchVars, wakeVars, patternVars, recordVars, ttsVars, sessionVars>>

\* C21: for every cardinal number-word phrase built from the unit words
\* zero to nine, the teens, the tens, "hundred" and "thousand", optionally
\* joined by "and", words_to_number returns the number the phrase denotes
\* ("two thousand five hundred" 2500, "eighty five" 85).
C21_WordsToNumberDenotes ==
    /\ \A th \in ThousandsWords : \A hd \in HundredsWords : \A sm \in SmallWords :
       \A joined \in BOOLEAN :
           (parseOp = "words_to_number"
                /\ utterance = Words(CardinalPhrase(th, hd, sm, joined)) /\ utterance # <<>>)
               => wordsNumber = Denoted(th, hd, sm) * NumScale
    /\ \A ws \in UnitPhrases :
           (parseOp = "words_to_number" /\ utterance = Words(ws))
               => wordsNumber = WORD_NUMBERS[ws[1]]

\* the keys of TIME_MINUTES
OneToNineWords == {"one", "two", "three", "four", "five", "six", "seven", "eight", "nine"}

TimeMinuteKeys ==
    {<<"oh", w>> : w \in OneToNineWords}
        \cup {<<w>> : w \in MinuteWords}
        \cup {<<t, w>> : t \in {"twenty", "thirty"}, w \in OneToNineWords}
        \cup {<<"forty", "five">>, <<"fifty", "five">>}

\* parse_time_words(text) on "<hour> [<minute phrase>] <marker>"
ParseTimeWords ==
    \E h \in HourWords : \E key \in TimeMinuteKeys \cup {<<>>} : \E ap \in {"am", "pm"} :
        /\ parseOp' = "parse_time_words"
        /\ utterance' = Words(<<h>> \o key \o <<ap>>)
        /\ timeWords' = parse_time_words(Words(<<h>> \o key \o <<ap>>))
        /\ wordsNumber' = None
        /\ UNCHANGED <<stages, modelReply, ruleUsed, parseResult, confidence>>
        /\ UNCHANGED <<dispatchVars, wakeVars, patternVars, recordVars, ttsVars, sessionVars>>

\* C28: for every hour word one to twelve, every minute phrase that is a key
\* of TIME_MINUTES, one-word or two-word, and every am/pm marker,
\* parse_time_words("<hour> <minute phrase> <marker>") returns that hour,
\* the table's minute value for the whole phrase, and the marker.
C28_TimeWordsWholePhrase ==
    \A h \in HourWords : \A key \in TimeMinuteKeys : \A ap \in {"am", "pm"} :
        (parseOp = "parse_time_words" /\ utterance = Words(<<h>> \o key \o <<ap>>))
            => /\ timeWords.hour = WORD_NUMBERS[h] \div NumScale
               /\ timeWords.minute = TIME_MINUTES(Words(key))
               /\ timeWords.ampm = ap

(***************************************************************************)
(* voice/listener.py: listen_and_transcribe and the three recording loops.  *)
(* Time is counted in ticks of half a second from recording_start, so       *)
(* recording_start is 0 and elapsed is time.time() - recording_start.       *)
(***************************************************************************)
VAD_SILENCE_THRESHOLD == 3
MAX_RECORDING_TIME == 8

MaxFrameDelay == 2   \* longest time one frame read takes

Engines == {"vosk", "whisper", "moonshine"}

\* what the engine answers when asked for a result
Heard == {"", "had 500 calories"}

\* a frame: speech or silence by its energy; for the streaming engine,
\* whether AcceptWaveform reports a complete phrase on it
Frame(s, p) == [silent |-> s, phrase |-> p]

\* no frame read yet
NoFrame == Frame(TRUE, FALSE)

InitRecord ==
    /\ stt_engine = "none"
    /\ recPhase = "idle"
    /\ elapsed = 0
    /\ silence_start = None
    /\ has_speech = FALSE
    /\ recResult = ""
    /\ endReason = "none"
    /\ sttAsked = FALSE
    /\ speechSeen = FALSE
    /\ lastSpeech = None
    /\ lastFrame = NoFrame
    /\ lastText = ""

\* VoiceListener.__init__: the engine is fixed by the configuration
LoadModels ==
    /\ stt_engine = "none"
    /\ stt_engine' \in Engines
    /\ UNCHANGED <<recPhase, elapsed, silence_start, has_speech, recResult,
                   endReason, sttAsked, speechSeen, lastSpeech, lastFrame, lastText>>
    /\ UNCHANGED <<dispatchVars, wakeVars, patternVars, ttsVars, sessionVars, parserVars>>

\* listen_and_transcribe up to the first frame read
StartRecording ==
    /\ stt_engine # "none"
    /\ recPhase \in {"idle", "done"}
    /\ recPhase' = "recording"
    /\ elapsed' = 0
    /\ silence_start' = None
    /\ has_speech' = FALSE
    /\ recResult' = ""
    /\ endReason' = "none"
    /\ sttAsked' = FALSE
    /\ speechSeen' = FALSE
    /\ lastSpeech' = None
    /\ lastFrame' = NoFrame
    /\ lastText' = ""
    /\ UNCHANGED stt_engine
    /\ UNCHANGED <<dispatchVars, wakeVars, patternVars, ttsVars, sessionVars, parserVars>>

FramesFor(eng) ==
    IF eng = "vosk" THEN {Frame(sl, ph) : sl \in BOOLEAN, ph \in BOOLEAN}
    ELSE {Frame(sl, FALSE) : sl \in BOOLEAN}

\* the state of the loop after one iteration
Loop(ss, hs, ended, why, txt, asked) ==
    [silence_start |-> ss, has_speech |-> hs, recResult |-> txt,
     endReason |-> why, sttAsked |-> asked, ended |-> ended]

\* the loop of _transcribe_vosk without the return on a complete phrase
VoskIterationUntilSilence(t, frame, text) ==
    LET asked == sttAsked \/ frame.phrase
        ss == IF frame.silent
              THEN (IF silence_start = None THEN t ELSE silence_start)
              ELSE None
    IN  IF frame.silent /\ silence_start # None /\ t - silence_start > VAD_SILENCE_THRESHOLD
        THEN Loop(silence_start, FALSE, TRUE, "silence", text, TRUE)
        ELSE IF t > MAX_RECORDING_TIME
        THEN Loop(ss, FALSE, TRUE, "max", text, TRUE)
        ELSE Loop(ss, FALSE, FALSE, "none", "", asked)

\* one iteration of the loop of _transcribe_vosk at time t
VoskIteration(t, frame, text) ==
    LET asked == sttAsked \/ frame.phrase
        ss == IF frame.silent
              THEN (IF silence_start = None THEN t ELSE silence_start)
              ELSE None
    IN  IF frame.phrase /\ text # ""
        THEN Loop(silence_start, FALSE, TRUE, "phrase", text, TRUE)
        ELSE IF frame.silent /\ silence_start # None /\ t - silence_start > VAD_SILENCE_THRESHOLD
        THEN Loop(silence_start, FALSE, TRUE, "silence", text, TRUE)
        ELSE IF t > MAX_RECORDING_TIME
        THEN Loop(ss, FALSE, TRUE, "max", text, TRUE)
        ELSE Loop(ss, FALSE, FALSE, "none", "", asked)

\* the loop of the batch engines without the check of MAX_RECORDING_TIME
BatchIterationNoMaximum(t, frame, text) ==
    LET hs == has_speech \/ ~frame.silent
        ss == IF ~frame.silent THEN None
              ELSE IF has_speech /\ silence_start = None THEN t
              ELSE silence_start
        timeout == frame.silent /\ has_speech /\ silence_start # None
                   /\ t - silence_start > VAD_SILENCE_THRESHOLD
    IN  IF timeout
        THEN Loop(ss, hs, TRUE, "silence", text, TRUE)
        ELSE Loop(ss, hs, FALSE, "none", "", FALSE)

\* one iteration of the loop of _transcribe_whisper and _transcribe_moonshine
\* at time t, with the code after the loop when the iteration leaves it
BatchIteration(t, frame, text) ==
    LET hs == has_speech \/ ~frame.silent
        ss == IF ~frame.silent THEN None
              ELSE IF has_speech /\ silence_start = None THEN t
              ELSE silence_start
        timeout == frame.silent /\ has_speech /\ silence_start # None
                   /\ t - silence_start > VAD_SILENCE_THRESHOLD
        why == IF timeout THEN "silence" ELSE "max"
    IN  IF timeout \/ t > MAX_RECORDING_TIME
        THEN (IF ~hs THEN Loop(ss, hs, TRUE, why, "", FALSE)
              ELSE Loop(ss, hs, TRUE, why, text, TRUE))
        ELSE Loop(ss, hs, FALSE, "none", "", FALSE)

\* one frame read and the loop iteration on it
ReadFrame ==
    /\ recPhase = "recording"
    /\ \E dt \in 1..MaxFrameDelay : \E frame \in FramesFor(stt_engine) : \E text \in Heard :
        LET t == elapsed + dt
            it == IF stt_engine = "vosk" THEN VoskIteration(t, frame, text)
                  ELSE BatchIteration(t, frame, text)
        IN  /\ elapsed' = t
            /\ silence_start' = it.silence_start
            /\ has_speech' = it.has_speech
            /\ recResult' = it.recResult
            /\ endReason' = it.endReason
            /\ sttAsked' = it.sttAsked
            /\ recPhase' = IF it.ended THEN "done" ELSE "recording"
            /\ speechSeen' = (speechSeen \/ ~frame.silent)
            /\ lastSpeech' = IF frame.silent THEN lastSpeech ELSE t
            /\ lastFrame' = frame
            /\ lastText' = text
    /\ UNCHANGED stt_engine
    /\ UNCHANGED <<dispatchVars, wakeVars, patternVars, ttsVars, sessionVars, parserVars>>

\* stream.read or the engine raises: the except clause returns ""
StreamError ==
    /\ recPhase = "recording"
    /\ recPhase' = "done"
    /\ recResult' = ""
    /\ endReason' = "error"
    /\ UNCHANGED <<stt_engine, elapsed, silence_start, has_speech, sttAsked,
                   speechSeen, lastSpeech, lastFrame, lastText>>
    /\ UNCHANGED <<dispatchVars, wakeVars, patternVars, ttsVars, sessionVars, parserVars>>

\* C7: in every engine the recording ends on the silence timeout only if a
\* speech frame has been observed and the silence since the last speech
\* frame exceeds VAD_SILENCE_THRESHOLD.
C7_SilenceEndsOnlyAfterSpeech ==
    (recPhase = "done" /\ endReason = "silence")
        => /\ speechSeen
           /\ lastSpeech # None
           /\ elapsed - lastSpeech > VAD_SILENCE_THRESHOLD

\* C8: in every engine, a recording that leaves the loop with no speech
\* frame observed returns the empty string, and the engine is not asked
\* for a result.
C8_NoSpeechIsDiscarded ==
    (recPhase = "done" /\ endReason \in {"silence", "max"} /\ ~speechSeen)
        => recResult = "" /\ ~sttAsked

\* C25: with the streaming engine, as soon as the recognizer reports a
\* complete phrase for a frame (a final result mid-recording), recording
\* stops on that frame and returns that result, without waiting for the
\* silence timer or the hard maximum.
C25_PhraseStopsRecording ==
    (stt_engine = "vosk" /\ lastFrame.phrase /\ endReason # "error")
        => recPhase = "done" /\ endReason = "phrase" /\ recResult = lastText

\* C25, amended: a complete phrase whose text is not empty stops the
\* recording on its frame and is returned; a complete phrase whose text is
\* empty stops nothing, and the frame goes on to the silence timer and the
\* hard maximum like any other.
C25_NonEmptyPhraseStopsRecording ==
    /\ (stt_engine = "vosk" /\ lastFrame.phrase /\ lastText # "")
           => recPhase = "done" /\ endReason = "phrase" /\ recResult = lastText
    /\ (stt_engine = "vosk" /\ lastFrame.phrase /\ lastText = "" /\ recPhase = "done")
           => endReason \in {"silence", "max", "error"}

\* a phrase ends a recording that neither timer would have ended
C25_Witness ==
    /\ stt_engine = "vosk" /\ lastFrame.phrase /\ lastText # ""
    /\ recPhase = "done" /\ endReason = "phrase" /\ recResult = lastText
    /\ elapsed <= MAX_RECORDING_TIME
    /\ silence_start = None

\* C26: for every engine and every sequence of speech and silence frames,
\* provided each frame read returns, the recording loop ends no later than
\* the first frame processed after the elapsed recording time exceeds
\* MAX_RECORDING_TIME: no frame sequence keeps it recording forever.
C26_RecordingEndsAtMaximum ==
    recPhase = "recording" => elapsed <= MAX_RECORDING_TIME

\* a recording of speech frames only, ended by the hard maximum
C26_Witness ==
    /\ recPhase = "done" /\ endReason = "max" /\ elapsed > MAX_RECORDING_TIME
    /\ stt_engine = "whisper" /\ has_speech /\ silence_start = None

(***************************************************************************)
(* voice/tts.py: speak                                                      *)
(***************************************************************************)
\* the phrases of COMMON_PHRASES that the session speaks
COMMON_PHRASES ==
    {"Sorry, I didn't understand that.", "An error occurred.",
     "Cannot connect to dashboard server."}

Texts == COMMON_PHRASES \cup {"Yes?", "Added 500 calories"}

\* TextToSpeech(): the voice model is found or not; precomputing a phrase
\* can run into the synthesis timeout
ConstructOutcomes == {"ok", "model_missing", "precompute_timeout"}

\* on-demand synthesis: what the two subprocesses do
FlyOutcomes ==
    {"ok", "nonzero_exit", "piper_missing", "aplay_missing",
     "aplay_timeout", "piper_timeout"}

\* SIGINT while speak waits for playback or for synthesis: signal_handler
\* raises SystemExit there
InterruptOutcomes == {"interrupt_in_aplay_wait", "interrupt_in_piper_wait"}

InitTTS ==
    /\ _tts_instance = FALSE
    /\ cache_files = {}
    /\ spoken = ""
    /\ speakOutcome = "none"
    /\ piper_proc = "none"
    /\ aplay_proc = "none"

Spoke(i, f, o, p, a) ==
    [outcome |-> o, instance |-> i, files |-> f, piper |-> p, aplay |-> a]

\* the on-demand branch of TextToSpeech.speak
Synthesize(inst, files, fly) ==
    CASE fly \in {"ok", "nonzero_exit"} -> Spoke(inst, files, "returned", "exited", "exited")
      [] fly = "piper_missing" -> Spoke(inst, files, "returned", "none", "none")
      [] fly = "aplay_missing" -> Spoke(inst, files, "returned", "running", "none")
      [] fly = "aplay_timeout" -> Spoke(inst, files, "NameError", "running", "running")
      [] fly = "piper_timeout" -> Spoke(inst, files, "NameError", "running", "exited")
      [] fly = "interrupt_in_aplay_wait" ->
             Spoke(inst, files, "SystemExit", "running", "running")
      [] fly = "interrupt_in_piper_wait" ->
             Spoke(inst, files, "SystemExit", "running", "exited")

\* speak(text): get_tts(), then TextToSpeech.speak.  cons and made are used
\* only when the instance has to be constructed: made is the set of common
\* phrases whose precomputation leaves a cache file
speak(text, cons, made, fly) ==
    LET files == IF _tts_instance THEN cache_files ELSE cache_files \cup made
    IN  IF ~_tts_instance /\ cons = "model_missing"
        THEN Spoke(FALSE, cache_files, "FileNotFoundError", "none", "none")
        ELSE IF ~_tts_instance /\ cons = "precompute_timeout"
        THEN Spoke(FALSE, files, "TimeoutExpired", "none", "none")
        ELSE IF text \in COMMON_PHRASES /\ text \in files
        THEN Spoke(TRUE, files, "returned", "none", "exited")
        ELSE Synthesize(TRUE, files, fly)

\* the environment of one speak call
ConsFor(inst) == IF inst THEN {"ok"} ELSE ConstructOutcomes
MadeFor(inst) == IF inst THEN {{}} ELSE SUBSET COMMON_PHRASES

\* one speak(text) call
Speak ==
    \E text \in Texts : \E cons \in ConsFor(_tts_instance) :
    \E made \in MadeFor(_tts_instance) : \E fly \in FlyOutcomes \cup InterruptOutcomes :
        LET r == speak(text, cons, made, fly)
        IN  /\ _tts_instance' = r.instance
            /\ cache_files' = r.files
            /\ spoken' = text
            /\ speakOutcome' = r.outcome
            /\ piper_proc' = r.piper
            /\ aplay_proc' = r.aplay
            /\ UNCHANGED <<dispatchVars, wakeVars, patternVars, recordVars, sessionVars, parserVars>>

\* C6: speak(text) returns normally for every text and every synthesis or
\* playback failure: no exception leaves the speech-output stage.
C6_SpeakNeverRaises == speakOutcome \in {"none", "returned"}

\* C22: on every exit path of on-demand synthesis in speak (normal
\* completion, timeout of either stage, exception, interrupt while it waits)
\* both the synthesis subprocess and the playback subprocess have exited or
\* been killed: no subprocess is left running.
C22_NoSubprocessLeftRunning ==
    speakOutcome # "none" => piper_proc # "running" /\ aplay_proc # "running"

(***************************************************************************)
(* voice/main.py: the session loop                                          *)
(***************************************************************************)
MaxCycles == 3   \* iterations of the main loop

InitSession ==
    /\ pc = "args"
    /\ argSingle = FALSE
    /\ argNoWake = FALSE
    /\ cycles = 0
    /\ exitKind = "running"

\* the top of the while loop: a new iteration begins
Iterate ==
    /\ cycles < MaxCycles
    /\ cycles' = cycles + 1
    /\ pc' = IF argNoWake THEN "listen" ELSE "wake"
    /\ exitKind' = exitKind

\* break
Break ==
    /\ pc' = "exited"
    /\ exitKind' = "loop_ended"
    /\ cycles' = cycles

\* the end of an iteration that checks args.single
BreakIfSingle == IF argSingle THEN Break ELSE Iterate

\* the speak call of a stage of the loop, and what a stage does with it
SpeakIn(text, r) ==
    /\ _tts_instance' = r.instance
    /\ cache_files' = r.files
    /\ spoken' = text
    /\ speakOutcome' = r.outcome
    /\ piper_proc' = r.piper
    /\ aplay_proc' = r.aplay

\* parser.parse_args()
ParseArgs ==
    /\ pc = "args"
    /\ argSingle' \in BOOLEAN
    /\ argNoWake' \in BOOLEAN
    /\ pc' = "init"
    /\ UNCHANGED <<cycles, exitKind, ttsVars>>
    /\ UNCHANGED <<dispatchVars, wakeVars, patternVars, recordVars, parserVars>>

\* listener = VoiceListener(), and the first arrival at the top of the loop
InitListener ==
    /\ pc = "init"
    /\ \/ /\ pc' = "exited"
          /\ exitKind' = "startup_failure"
          /\ cycles' = cycles
       \/ Iterate
    /\ UNCHANGED <<argSingle, argNoWake, ttsVars>>
    /\ UNCHANGED <<dispatchVars, wakeVars, patternVars, recordVars, parserVars>>

\* listener.wait_for_wake_word()
WaitWake ==
    /\ pc = "wake"
    /\ \E detected \in BOOLEAN :
        IF detected THEN pc' = "ack" /\ UNCHANGED <<cycles, exitKind>>
        ELSE Iterate
    /\ UNCHANGED <<argSingle, argNoWake, ttsVars>>
    /\ UNCHANGED <<dispatchVars, wakeVars, patternVars, recordVars, parserVars>>

\* speak("Yes?")
Acknowledge ==
    /\ pc = "ack"
    /\ \E cons \in ConsFor(_tts_instance) : \E made \in MadeFor(_tts_instance) :
       \E fly \in FlyOutcomes :
        LET r == speak("Yes?", cons, made, fly)
        IN  /\ SpeakIn("Yes?", r)
            /\ pc' = IF r.outcome = "returned" THEN "listen" ELSE "handler"
    /\ UNCHANGED <<argSingle, argNoWake, cycles, exitKind>>
    /\ UNCHANGED <<dispatchVars, wakeVars, patternVars, recordVars, parserVars>>

\* text = listener.listen_and_transcribe()
Listen ==
    /\ pc = "listen"
    /\ \E heard \in {"text", "empty", "raise"} :
        CASE heard = "text" -> pc' = "parse" /\ UNCHANGED <<cycles, exitKind>>
          [] heard = "raise" -> pc' = "handler" /\ UNCHANGED <<cycles, exitKind>>
          [] heard = "empty" -> Iterate
    /\ UNCHANGED <<argSingle, argNoWake, ttsVars>>
    /\ UNCHANGED <<dispatchVars, wakeVars, patternVars, recordVars, parserVars>>

\* intent = parse_intent(text)
Parse ==
    /\ pc = "parse"
    /\ pc' \in {"execute", "apology"}
    /\ UNCHANGED <<argSingle, argNoWake, cycles, exitKind, ttsVars>>
    /\ UNCHANGED <<dispatchVars, wakeVars, patternVars, recordVars, parserVars>>

\* speak("Sorry, I didn't understand that.") and the single check after it
Apologize ==
    /\ pc = "apology"
    /\ \E cons \in ConsFor(_tts_instance) : \E made \in MadeFor(_tts_instance) :
       \E fly \in FlyOutcomes :
        LET r == speak("Sorry, I didn't understand that.", cons, made, fly)
        IN  /\ SpeakIn("Sorry, I didn't understand that.", r)
            /\ IF r.outcome = "returned" THEN BreakIfSingle
               ELSE pc' = "handler" /\ UNCHANGED <<cycles, exitKind>>
    /\ UNCHANGED <<argSingle, argNoWake>>
    /\ UNCHANGED <<dispatchVars, wakeVars, patternVars, recordVars, parserVars>>

\* result = execute_command(intent), speak(result.message) and the single
\* check after it
ExecuteAndSpeak ==
    /\ pc = "execute"
    /\ \E text \in {"Added 500 calories", "Cannot connect to dashboard server."} :
       \E cons \in ConsFor(_tts_instance) : \E made \in MadeFor(_tts_instance) :
       \E fly \in FlyOutcomes :
        LET r == speak(text, cons, made, fly)
        IN  /\ SpeakIn(text, r)
            /\ IF r.outcome = "returned" THEN BreakIfSingle
               ELSE pc' = "handler" /\ UNCHANGED <<cycles, exitKind>>
    /\ UNCHANGED <<argSingle, argNoWake>>
    /\ UNCHANGED <<dispatchVars, wakeVars, patternVars, recordVars, parserVars>>

\* except Exception: speak("An error occurred.") and the single check
HandleException ==
    /\ pc = "handler"
    /\ \E cons \in ConsFor(_tts_instance) : \E made \in MadeFor(_tts_instance) :
       \E fly \in FlyOutcomes :
        LET r == speak("An error occurred.", cons, made, fly)
        IN  /\ SpeakIn("An error occurred.", r)
            /\ IF r.outcome = "returned" THEN BreakIfSingle
               ELSE /\ pc' = "exited"
                    /\ exitKind' = "uncaught_exception"
                    /\ cycles' = cycles
    /\ UNCHANGED <<argSingle, argNoWake>>
    /\ UNCHANGED <<dispatchVars, wakeVars, patternVars, recordVars, parserVars>>

\* SIGINT: signal_handler calls sys.exit(0)
Interrupt ==
    /\ pc \notin {"args", "exited"}
    /\ pc' = "exited"
    /\ exitKind' = "interrupt"
    /\ UNCHANGED <<argSingle, argNoWake, cycles, ttsVars>>
    /\ UNCHANGED <<dispatchVars, wakeVars, patternVars, recordVars, parserVars>>

\* C23: if a required model file is missing (wake-word model, speech-to-text
\* model or text-to-speech voice model), the process exits with a diagnostic
\* before the first wake-listening or recording phase begins: a missing
\* model is never first discovered after listening has started.  The
\* listener's models are loaded by InitListener; the voice model is looked
\* for by the first speak call, which lies behind the wait_for_wake_word or
\* the listen_and_transcribe of an iteration.
C23_MissingModelFoundBeforeListening ==
    speakOutcome = "FileNotFoundError" => cycles = 0

\* C5: once the listener is constructed and the loop runs outside
\* single-shot mode, no failure of a cycle ends the loop or the process;
\* only a user interrupt does.
C5_OnlyInterruptEndsLoop ==
    (pc = "exited" /\ ~argSingle /\ cycles >= 1) => exitKind = "interrupt"

\* C9: in single-shot mode the loop ends after its first cycle whatever the
\* outcome; no second wake or listen phase is started.
C9_SingleShotOneCycle == argSingle => cycles <= 1

(***************************************************************************)
(* Specifications                                                           *)
(***************************************************************************)
Init ==
    /\ InitDispatch /\ InitWake /\ InitPatterns /\ InitRecord /\ InitTTS /\ InitSession
    /\ InitParser

NextDispatch ==
    \/ ExecuteCommand
    \/ SayWeight

SpecDispatch == Init /\ [][NextDispatch]_vars

NextWake ==
    \/ WaitForWakeWord
    \/ Elapse

SpecWake == Init /\ [][NextWake]_vars

NextPatterns ==
    \/ ParseCustomMetrics
    \/ ReloadCustomPatterns

SpecPatterns == Init /\ [][NextPatterns]_vars

NextRecord ==
    \/ LoadModels
    \/ StartRecording
    \/ ReadFrame
    \/ StreamError

SpecRecord == Init /\ [][NextRecord]_vars

NextTTS == Speak

SpecTTS == Init /\ [][NextTTS]_vars

NextSession ==
    \/ ParseArgs
    \/ InitListener
    \/ WaitWake
    \/ Acknowledge
    \/ Listen
    \/ Parse
    \/ Apologize
    \/ ExecuteAndSpeak
    \/ HandleException
    \/ Interrupt

SpecSession == Init /\ [][NextSession]_vars

NextParser ==
    \/ ParseIntent
    \/ ParseWithOllama

SpecParser == Init /\ [][NextParser]_vars

NextRules == ParseWithRegex

SpecRules == Init /\ [][NextRules]_vars

NextWords ==
    \/ WordsToNumber
    \/ ParseTimeWords

SpecWords == Init /\ [][NextWords]_vars

====
